---- MODULE Spec2Model ----
(***************************************************************************)
(* Model of prepreproc: the polling directory monitor (monitor.py), the    *)
(* action registry with its trigger scheduler and snapshot diff            *)
(* (actions.py), the trigger configuration (config.py) and the change      *)
(* records (events.py).                                                    *)
(*                                                                         *)
(* Optional[T] values are modelled as sequences of length at most one:     *)
(* None is <<>> and a present value x is <<x>>.                            *)
(***************************************************************************)
EXTENDS Integers, Sequences, FiniteSets, TLC

None == <<>>
Some(x) == <<x>>

(***************************************************************************)
(* datetime: naive instants as records                                     *)
(* [year, month, day, hour, minute, second, microsecond], with the         *)
(* proleptic Gregorian calendar of Python's datetime and calendar modules. *)
(***************************************************************************)

isleap(year) == (year % 4 = 0) /\ ((year % 100 # 0) \/ (year % 400 = 0))

\* calendar.monthrange(year, month)[1]: the number of days of the month.
monthrange_days(year, month) ==
    IF month = 2 THEN (IF isleap(year) THEN 29 ELSE 28)
    ELSE IF month \in {4, 6, 9, 11} THEN 30
    ELSE 31

RECURSIVE days_before_month(_, _)
days_before_month(year, month) ==
    IF month <= 1 THEN 0
    ELSE days_before_month(year, month - 1) + monthrange_days(year, month - 1)

days_before_year(year) ==
    LET y == year - 1
    IN  y * 365 + (y \div 4) - (y \div 100) + (y \div 400)

\* date.toordinal(): 1 is January 1 of year 1.
toordinal(dt) ==
    days_before_year(dt.year) + days_before_month(dt.year, dt.month) + dt.day

\* date.fromordinal(): the (year, month, day) of an ordinal.
fromordinal(ordinal) ==
    LET n0   == ordinal - 1
        n400 == n0 \div 146097
        r400 == n0 % 146097
        n100 == r400 \div 36524
        r100 == r400 % 36524
        n4   == r100 \div 1461
        r4   == r100 % 1461
        n1   == r4 \div 365
        r1   == r4 % 365
        y    == n400 * 400 + n100 * 100 + n4 * 4 + n1 + 1
    IN  IF n1 = 4 \/ n100 = 4
        THEN [year |-> y - 1, month |-> 12, day |-> 31]
        ELSE LET m == CHOOSE k \in 1..12 :
                          /\ days_before_month(y, k) <= r1
                          /\ r1 < days_before_month(y, k) + monthrange_days(y, k)
             IN  [year |-> y, month |-> m, day |-> r1 - days_before_month(y, m) + 1]

\* datetime.weekday(): Monday is 0, Sunday is 6.
weekday_of(dt) == (toordinal(dt) + 6) % 7

second_of_day(dt) == dt.hour * 3600 + dt.minute * 60 + dt.second

\* datetime + timedelta(days=days, seconds=seconds), days and seconds >= 0.
dt_add(dt, days, seconds) ==
    LET s   == second_of_day(dt) + seconds
        ymd == fromordinal(toordinal(dt) + days + (s \div 86400))
        sod == s % 86400
    IN  [year |-> ymd.year, month |-> ymd.month, day |-> ymd.day,
         hour |-> sod \div 3600, minute |-> (sod % 3600) \div 60,
         second |-> sod % 60, microsecond |-> dt.microsecond]

\* datetime comparison a < b and a <= b.
dt_lt(a, b) ==
    LET oa == toordinal(a)
        ob == toordinal(b)
        sa == second_of_day(a)
        sb == second_of_day(b)
    IN  \/ oa < ob
        \/ oa = ob /\ sa < sb
        \/ oa = ob /\ sa = sb /\ a.microsecond < b.microsecond

dt_le(a, b) == a = b \/ dt_lt(a, b)

\* datetime(year, month, day, hour, minute, second, 0) and time(hour, minute, second).
DateTime(y, mo, d, h, mi, s, us) ==
    [year |-> y, month |-> mo, day |-> d, hour |-> h, minute |-> mi,
     second |-> s, microsecond |-> us]

TimeOfDay(h, mi, s) == [hour |-> h, minute |-> mi, second |-> s]

(***************************************************************************)
(* config.py: TriggerType and ActionTriggerConfig.                         *)
(***************************************************************************)

\* The members of TriggerType.
TriggerTypes == {"event", "minutely", "hourly", "daily", "weekly", "monthly"}

\* The kinds that compute_next_run schedules.
TimedTypes == {"minutely", "hourly", "daily", "weekly", "monthly"}

\* ActionTriggerConfig(type, time, weekday, day, minute); the optional fields
\* default to None.
Trigger(type, time, weekday, day, minute) ==
    [type |-> type, time |-> time, weekday |-> weekday, day |-> day, minute |-> minute]

(***************************************************************************)
(* actions.py: the trigger scheduler.                                      *)
(***************************************************************************)

DEFAULT_TIME == TimeOfDay(0, 0, 0)

\* A clamp that takes February for 28 days in every year.
clamped_month_datetime_no_leap_day(year, month, day, time_of_day) ==
    LET last_day   == IF month = 2 THEN 28 ELSE monthrange_days(year, month)
        target_day == IF day < last_day THEN day ELSE last_day
    IN  DateTime(year, month, target_day,
                 time_of_day.hour, time_of_day.minute, time_of_day.second, 0)

clamped_month_datetime(year, month, day, time_of_day) ==
    LET last_day   == monthrange_days(year, month)
        target_day == IF day < last_day THEN day ELSE last_day
    IN  DateTime(year, month, target_day,
                 time_of_day.hour, time_of_day.minute, time_of_day.second, 0)

\* A candidate test that never finds the candidate passed.
not_after_never(candidate, reference) == FALSE

\* A candidate test that compares the dates and not the times of day.
not_after_by_date(candidate, reference) == toordinal(candidate) < toordinal(reference)

\* A candidate test that lets a candidate equal to the reference stand.
not_after_strictly_before(candidate, reference) == dt_lt(candidate, reference)

\* A candidate test that always takes the next period.
not_after_always(candidate, reference) == TRUE

\* The test "base <= reference" that decides whether the candidate of the
\* current period has passed and the next period is taken.
not_after(candidate, reference) == dt_le(candidate, reference)

\* _compute_next_run, lines 164-218: the kinds other than event.
timed_next_run(trigger, reference) ==
    IF trigger.type = "minutely" THEN
        LET second == IF trigger.time # None THEN trigger.time[1].second ELSE 0
            base   == [reference EXCEPT !.second = second, !.microsecond = 0]
        IN  Some(IF not_after(base, reference) THEN dt_add(base, 0, 60) ELSE base)
    ELSE IF trigger.type = "hourly" THEN
        LET minute == IF trigger.minute # None THEN trigger.minute[1] ELSE 0
            second == IF trigger.time # None THEN trigger.time[1].second ELSE 0
            base   == [reference EXCEPT !.minute = minute, !.second = second,
                                        !.microsecond = 0]
        IN  Some(IF not_after(base, reference) THEN dt_add(base, 0, 3600) ELSE base)
    ELSE
        LET time_of_day == IF trigger.time = None THEN DEFAULT_TIME ELSE trigger.time[1]
            base == [reference EXCEPT !.hour = time_of_day.hour,
                                      !.minute = time_of_day.minute,
                                      !.second = time_of_day.second,
                                      !.microsecond = 0]
        IN  IF trigger.type = "daily" THEN
                Some(IF not_after(base, reference) THEN dt_add(base, 1, 0) ELSE base)
            ELSE IF trigger.type = "weekly" THEN
                LET weekday    == IF trigger.weekday # None THEN trigger.weekday[1]
                                  ELSE weekday_of(reference)
                    days_ahead == (weekday - weekday_of(base)) % 7
                    candidate  == dt_add(base, days_ahead, 0)
                IN  Some(IF not_after(candidate, reference)
                         THEN dt_add(candidate, 7, 0) ELSE candidate)
            ELSE IF trigger.type = "monthly" THEN
                LET day       == IF trigger.day # None THEN trigger.day[1]
                                 ELSE reference.day
                    candidate == clamped_month_datetime(base.year, base.month, day,
                                                        time_of_day)
                    month1    == base.month + 1
                    month2    == IF month1 > 12 THEN 1 ELSE month1
                    year2     == IF month1 > 12 THEN base.year + 1 ELSE base.year
                IN  Some(IF not_after(candidate, reference)
                         THEN clamped_month_datetime(year2, month2, day, time_of_day)
                         ELSE candidate)
            ELSE None

\* A scheduler without the early return for event triggers: an event trigger
\* falls through to the branch of the first timed kind.
compute_next_run_event_falls_through(trigger, reference) ==
    timed_next_run([trigger EXCEPT !.type = IF @ = "event" THEN "minutely" ELSE @],
                   reference)

\* _compute_next_run, lines 161-163: None for an event trigger.
compute_next_run(trigger, reference) ==
    IF trigger.type = "event" THEN None ELSE timed_next_run(trigger, reference)

(***************************************************************************)
(* events.py: EventType and FileEvent.  monitor.py and actions.py:         *)
(* Snapshot, a dict from path to (mtime, size).  A dict keeps insertion    *)
(* order, so a snapshot is a sequence of entries with distinct paths.      *)
(***************************************************************************)

EventTypes == {"created", "modified", "deleted", "moved"}

FileEvent(event_type, path, size, mtime) ==
    [event_type |-> event_type, path |-> path, previous_path |-> None,
     size |-> size, mtime |-> mtime]

Entry(path, mtime, size) == [path |-> path, mtime |-> mtime, size |-> size]

\* dict.keys() as a set, "path in d", d.get(path) and d[path].
dict_keys(d) == {d[i].path : i \in 1..Len(d)}

dict_contains(d, path) == \E i \in 1..Len(d) : d[i].path = path

dict_get(d, path) ==
    IF dict_contains(d, path)
    THEN LET e == d[CHOOSE i \in 1..Len(d) : d[i].path = path]
         IN  Some(<<e.mtime, e.size>>)
    ELSE None

dict_item(d, path) == dict_get(d, path)[1]

\* dict(snapshot): a copy with the same items in the same order.
dict_copy(d) == [i \in 1..Len(d) |-> d[i]]

\* A first loop that takes a new path whose (mtime, size) is that of an old
\* path for the old path renamed.
monitor_diff_new_entry_infers_rename(old, entry) ==
    LET twins == {i \in 1..Len(old) : /\ old[i].path # entry.path
                                      /\ old[i].mtime = entry.mtime
                                      /\ old[i].size = entry.size}
    IN  IF dict_contains(old, entry.path)
        THEN IF dict_item(old, entry.path) # <<entry.mtime, entry.size>>
             THEN <<FileEvent("modified", entry.path, entry.size, entry.mtime)>>
             ELSE <<>>
        ELSE IF twins = {}
             THEN <<FileEvent("created", entry.path, entry.size, entry.mtime)>>
             ELSE <<[FileEvent("moved", entry.path, entry.size, entry.mtime)
                        EXCEPT !.previous_path =
                            Some(old[CHOOSE i \in twins : TRUE].path)]>>

\* A first loop that compares sizes only.
monitor_diff_new_entry_size_only(old, entry) ==
    IF ~dict_contains(old, entry.path)
    THEN <<FileEvent("created", entry.path, entry.size, entry.mtime)>>
    ELSE IF dict_item(old, entry.path)[2] # entry.size
         THEN <<FileEvent("modified", entry.path, entry.size, entry.mtime)>>
         ELSE <<>>

\* A first loop whose Modified records carry the old mtime and size.
monitor_diff_new_entry_old_stats(old, entry) ==
    IF ~dict_contains(old, entry.path)
    THEN <<FileEvent("created", entry.path, entry.size, entry.mtime)>>
    ELSE IF dict_item(old, entry.path) # <<entry.mtime, entry.size>>
         THEN <<FileEvent("modified", entry.path, dict_item(old, entry.path)[2],
                          dict_item(old, entry.path)[1])>>
         ELSE <<>>

\* monitor._diff_snapshots, body of the first loop: what one item of new yields.
monitor_diff_new_entry(old, entry) ==
    LET path  == entry.path
        mtime == entry.mtime
        size  == entry.size
    IN  IF ~dict_contains(old, path)
        THEN <<FileEvent("created", path, size, mtime)>>
        ELSE LET old_mtime == dict_item(old, path)[1]
                 old_size  == dict_item(old, path)[2]
             IN  IF old_mtime # mtime \/ old_size # size
                 THEN <<FileEvent("modified", path, size, mtime)>>
                 ELSE <<>>

\* A second loop whose membership test is inverted.
monitor_diff_old_entry_inverted(seen, entry) ==
    IF entry.path \in seen
    THEN <<FileEvent("deleted", entry.path, entry.size, entry.mtime)>>
    ELSE <<>>

\* monitor._diff_snapshots, body of the second loop: what one item of old yields.
monitor_diff_old_entry(seen, entry) ==
    IF entry.path \notin seen
    THEN <<FileEvent("deleted", entry.path, entry.size, entry.mtime)>>
    ELSE <<>>

\* monitor._diff_snapshots: the generator, as the sequence it yields.
monitor_diff_snapshots(old, new) ==
    LET from_new[i \in 0..Len(new)] ==
            IF i = 0 THEN <<>>
            ELSE from_new[i - 1] \o monitor_diff_new_entry(old, new[i])
        seen[i \in 0..Len(new)] ==
            IF i = 0 THEN {} ELSE seen[i - 1] \cup {new[i].path}
        from_old[i \in 0..Len(old)] ==
            IF i = 0 THEN from_new[Len(new)]
            ELSE from_old[i - 1] \o monitor_diff_old_entry(seen[Len(new)], old[i])
    IN  from_old[Len(old)]

\* A first loop that unpacks the old value as (size, mtime).
actions_diff_new_entry_swapped(old, entry) ==
    LET old_values == dict_get(old, entry.path)
    IN  IF old_values = None
        THEN <<FileEvent("created", entry.path, entry.size, entry.mtime)>>
        ELSE IF old_values[1][2] # entry.mtime \/ old_values[1][1] # entry.size
             THEN <<FileEvent("modified", entry.path, entry.size, entry.mtime)>>
             ELSE <<>>

\* actions._diff_snapshots, body of the first loop.
actions_diff_new_entry(old, entry) ==
    LET path       == entry.path
        mtime      == entry.mtime
        size       == entry.size
        old_values == dict_get(old, path)
    IN  IF old_values = None
        THEN <<FileEvent("created", path, size, mtime)>>
        ELSE LET old_mtime == old_values[1][1]
                 old_size  == old_values[1][2]
             IN  IF old_mtime # mtime \/ old_size # size
                 THEN <<FileEvent("modified", path, size, mtime)>>
                 ELSE <<>>

\* A second loop whose Deleted records carry a size and an mtime of zero.
actions_diff_old_entry_zero_stats(seen, entry) ==
    IF entry.path \notin seen
    THEN <<FileEvent("deleted", entry.path, 0, 0)>>
    ELSE <<>>

\* actions._diff_snapshots, body of the second loop.
actions_diff_old_entry(seen, entry) ==
    IF entry.path \notin seen
    THEN <<FileEvent("deleted", entry.path, entry.size, entry.mtime)>>
    ELSE <<>>

\* actions._diff_snapshots: the list-building twin used for modified_events.
actions_diff_snapshots(old, new) ==
    LET events_new[i \in 0..Len(new)] ==
            IF i = 0 THEN <<>>
            ELSE events_new[i - 1] \o actions_diff_new_entry(old, new[i])
        seen[i \in 0..Len(new)] ==
            IF i = 0 THEN {} ELSE seen[i - 1] \cup {new[i].path}
        events_old[i \in 0..Len(old)] ==
            IF i = 0 THEN events_new[Len(new)]
            ELSE events_old[i - 1] \o actions_diff_old_entry(seen[Len(new)], old[i])
    IN  events_old[Len(old)]

(***************************************************************************)
(* actions.py: ActionContext, Action and the pure parts of ActionRegistry. *)
(* An action is named by its index in ActionRegistry._actions.             *)
(***************************************************************************)

ActionContext(root_path, snapshot, event, modified_events) ==
    [root_path |-> root_path, snapshot |-> snapshot, event |-> event,
     modified_events |-> modified_events]

\* Action(name, callback, options, trigger) with the dataclass defaults.
Action(trigger) ==
    [trigger |-> trigger, next_run_at |-> None, previous_snapshot |-> None]

is_event_trigger(action) == action.trigger.type = "event"

schedule_next_run(action, reference) ==
    [action EXCEPT !.next_run_at = compute_next_run(action.trigger, reference)]

\* ActionRegistry._event_actions and ._scheduled_actions, as the indices of
\* their members in registration order.
event_actions(acts) ==
    SelectSeq([i \in 1..Len(acts) |-> i], LAMBDA i : is_event_trigger(acts[i]))

scheduled_actions(acts) ==
    SelectSeq([i \in 1..Len(acts) |-> i], LAMBDA i : ~is_event_trigger(acts[i]))

\* ActionRegistry.__init__ on the trigger of each configured action.
registry_init(triggers, reference_time) ==
    [i \in 1..Len(triggers) |->
        IF is_event_trigger(Action(triggers[i]))
        THEN Action(triggers[i])
        ELSE schedule_next_run(Action(triggers[i]), reference_time)]

\* A handler that lets the exception of a callback escape.
safe_invoke_rethrows(outcome) ==
    IF outcome = "raise" THEN "propagated" ELSE "returned"

\* ActionRegistry._safe_invoke: how the call ends for a callback that returns
\* ("return") or raises an Exception ("raise"): the exception is caught and
\* logged, and control goes on after the call either way.
safe_invoke(outcome) ==
    IF outcome = "raise" THEN "caught" ELSE "returned"

\* dispatch_scheduled, lines 81-82: an unset next_run_at is computed from now.
scheduled_prepare(action, now) ==
    IF action.next_run_at = None THEN schedule_next_run(action, now) ELSE action

\* A due test that takes an action without next_run_at for due.
scheduled_skips_unset_is_due(action, now) ==
    action.next_run_at # None /\ dt_lt(now, action.next_run_at[1])

\* A due test that asks for now strictly after next_run_at.
scheduled_skips_at_due_instant(action, now) ==
    action.next_run_at = None \/ dt_le(now, action.next_run_at[1])

\* dispatch_scheduled, line 83: the action is passed over in this call.
scheduled_skips(action, now) ==
    action.next_run_at = None \/ dt_lt(now, action.next_run_at[1])

\* A context whose diff takes its arguments in the wrong order.
scheduled_context_reversed(action, root_path, snapshot) ==
    ActionContext(root_path, snapshot, None,
                  IF action.previous_snapshot # None
                  THEN actions_diff_snapshots(snapshot, action.previous_snapshot[1])
                  ELSE <<>>)

\* dispatch_scheduled, lines 85-92: the context of a due action.
scheduled_context(action, root_path, snapshot) ==
    ActionContext(root_path, snapshot, None,
                  IF action.previous_snapshot # None
                  THEN actions_diff_snapshots(action.previous_snapshot[1], snapshot)
                  ELSE <<>>)

\* A completion that reschedules from now itself.
scheduled_complete_no_epsilon(action, now, snapshot) ==
    schedule_next_run([action EXCEPT !.previous_snapshot = Some(dict_copy(snapshot))],
                      now)

\* A completion that rebases the action and leaves its next_run_at as it was.
scheduled_complete_no_reschedule(action, now, snapshot) ==
    [action EXCEPT !.previous_snapshot = Some(dict_copy(snapshot))]

\* dispatch_scheduled, lines 94-96: after the callback returned or raised.
scheduled_complete(action, now, snapshot) ==
    schedule_next_run([action EXCEPT !.previous_snapshot = Some(dict_copy(snapshot))],
                      dt_add(now, 0, 1))

\* A priming that seeds nothing.
prime_action_seeds_nothing(action, snapshot) == action

\* A priming that replaces a baseline that is already set.
prime_action_overwrites(action, snapshot) ==
    [action EXCEPT !.previous_snapshot = Some(dict_copy(snapshot))]

\* prime_scheduled_snapshots, lines 102-103, for one scheduled action.
prime_action(action, snapshot) ==
    IF action.previous_snapshot = None
    THEN [action EXCEPT !.previous_snapshot = Some(dict_copy(snapshot))]
    ELSE action

(***************************************************************************)
(* monitor.py: the snapshot scanner.  A path and a glob pattern are         *)
(* sequences of one-character strings.  A directory listing is a sequence  *)
(* of records [path, is_file, vanished, mtime, size], in the order          *)
(* _iter_paths yields them; vanished says that path.stat() raises          *)
(* FileNotFoundError.                                                      *)
(***************************************************************************)

\* fnmatch.fnmatch(name, pat) on a POSIX system, for patterns made of "*",
\* "?" and literal characters: "*" matches any run of characters, "/"
\* included, "?" any single character, and the whole name must match.
RECURSIVE fnmatch(_, _)
fnmatch(name, pat) ==
    IF pat = <<>> THEN name = <<>>
    ELSE IF Head(pat) = "*"
         THEN fnmatch(name, Tail(pat)) \/ (name # <<>> /\ fnmatch(Tail(name), pat))
         ELSE /\ name # <<>>
              /\ Head(pat) = "?" \/ Head(pat) = Head(name)
              /\ fnmatch(Tail(name), Tail(pat))

\* Path.name: the final component.
path_name(path) ==
    LET slashes == {i \in 1..Len(path) : path[i] = "/"}
        last    == IF slashes = {} THEN 0
                   ELSE CHOOSE i \in slashes : \A j \in slashes : j <= i
    IN  SubSeq(path, last + 1, Len(path))

\* any(fnmatch(relative, pat) or fnmatch(rel_from_root, pat) for pat in patterns)
any_pattern_matches(path, patterns) ==
    \E k \in 1..Len(patterns) :
        fnmatch(path_name(path), patterns[k]) \/ fnmatch(path, patterns[k])

\* A filter that asks the include patterns first.
matches_patterns_include_first(path, include_patterns, exclude_patterns) ==
    IF include_patterns # <<>> /\ any_pattern_matches(path, include_patterns)
    THEN TRUE
    ELSE IF exclude_patterns # <<>> /\ any_pattern_matches(path, exclude_patterns)
         THEN FALSE
         ELSE include_patterns = <<>>

\* _matches_patterns(path, include_patterns, exclude_patterns).
matches_patterns(path, include_patterns, exclude_patterns) ==
    IF exclude_patterns # <<>> /\ any_pattern_matches(path, exclude_patterns)
    THEN FALSE
    ELSE IF include_patterns = <<>>
         THEN TRUE
         ELSE any_pattern_matches(path, include_patterns)

\* _iter_paths(root, recursive): root.rglob("*") yields every entry below
\* root, root.glob("*") the entries directly in root.
iter_paths(root, listing, recursive) ==
    IF recursive THEN listing
    ELSE SelectSeq(listing,
                   LAMBDA e : \A i \in (Len(root) + 2)..Len(e.path) : e.path[i] # "/")

\* DirectoryMonitor._scan: the snapshot of the regular files that pass the
\* filter and can be stat'ed; {} when the root does not exist.
monitor_scan(root, root_exists, listing, recursive, include_patterns, exclude_patterns) ==
    IF ~root_exists THEN <<>>
    ELSE LET paths == iter_paths(root, listing, recursive)
             results[i \in 0..Len(paths)] ==
                 IF i = 0 THEN <<>>
                 ELSE IF ~paths[i].is_file THEN results[i - 1]
                 ELSE IF ~matches_patterns(paths[i].path, include_patterns,
                                           exclude_patterns)
                      THEN results[i - 1]
                 ELSE IF paths[i].vanished THEN results[i - 1]
                 ELSE Append(results[i - 1],
                             Entry(paths[i].path, paths[i].mtime, paths[i].size))
         IN  results[Len(paths)]

(***************************************************************************)
(* Inputs of the scheduler: trigger configurations and reference instants. *)
(***************************************************************************)

TriggerTimes == {TimeOfDay(0, 0, 0), TimeOfDay(9, 0, 0), TimeOfDay(10, 30, 30),
                 TimeOfDay(23, 59, 59)}

OptTimes == {None} \cup {Some(t) : t \in TriggerTimes}

Triggers ==
    {Trigger("event", None, None, None, None),
     Trigger("unknown", None, None, None, None)}
    \cup {Trigger("minutely", t, None, None, None) : t \in OptTimes}
    \cup {Trigger("hourly", t, None, None, m) :
              t \in OptTimes, m \in {None, Some(0), Some(30), Some(59)}}
    \cup {Trigger("daily", t, None, None, None) : t \in OptTimes}
    \cup {Trigger("weekly", t, w, None, None) :
              t \in OptTimes, w \in {None} \cup {Some(d) : d \in 0..6}}
    \cup {Trigger("monthly", t, None, d, None) :
              t \in OptTimes,
              d \in {None, Some(1), Some(15), Some(28), Some(29), Some(30), Some(31)}}

\* Month ends, a leap day, a year end and a Wednesday (2024-01-31).
ReferenceDates == {<<2023, 1, 31>>, <<2023, 2, 28>>, <<2023, 12, 31>>, <<2024, 1, 1>>,
                   <<2024, 1, 31>>, <<2024, 2, 28>>, <<2024, 2, 29>>, <<2024, 4, 30>>}

ReferenceTimes == {<<0, 0, 0>>, <<8, 59, 59>>, <<9, 0, 0>>, <<10, 30, 30>>,
                   <<10, 45, 0>>, <<23, 0, 0>>, <<23, 59, 59>>}

ReferenceMicros == {0, 500000}

References ==
    {DateTime(d[1], d[2], d[3], t[1], t[2], t[3], us) :
        d \in ReferenceDates, t \in ReferenceTimes, us \in ReferenceMicros}

(***************************************************************************)
(* Inputs of the registry and of the monitor: instants read from the       *)
(* clock, registered triggers, and the snapshots a scan can return.        *)
(***************************************************************************)

RootPath == "/data/raw"

\* Around 2024-01-01 00:00:00, a Monday: the last second of 2023, the boundary
\* itself, half a second before the next minute, that minute, and a month later.
I0 == DateTime(2023, 12, 31, 23, 59, 59, 0)
I1 == DateTime(2024, 1, 1, 0, 0, 0, 0)
I2 == DateTime(2024, 1, 1, 0, 0, 59, 500000)
I3 == DateTime(2024, 1, 1, 0, 1, 0, 0)
I4 == DateTime(2024, 2, 1, 0, 0, 30, 0)

Instants == {I0, I1, I2, I3, I4}

EventTrigger    == Trigger("event", None, None, None, None)
UnknownTrigger  == Trigger("unknown", None, None, None, None)
MinutelyTrigger == Trigger("minutely", None, None, None, None)
HourlyTrigger   == Trigger("hourly", None, None, None, Some(0))
DailyTrigger    == Trigger("daily", Some(TimeOfDay(0, 0, 0)), None, None, None)
WeeklyTrigger   == Trigger("weekly", Some(TimeOfDay(0, 0, 0)), Some(0), None, None)
MonthlyTrigger  == Trigger("monthly", Some(TimeOfDay(0, 0, 0)), None, Some(31), None)

\* The registered actions, as the sequence of their triggers.
Configs ==
    {<<EventTrigger, MinutelyTrigger, MinutelyTrigger, EventTrigger>>,
     <<HourlyTrigger, EventTrigger, UnknownTrigger, MonthlyTrigger>>,
     <<DailyTrigger, WeeklyTrigger>>}

Snapshots ==
    {<<>>,
     <<Entry("a.txt", 0, 10)>>,
     <<Entry("a.txt", 0, 20), Entry("b.txt", 1, 5)>>}

\* The change records between two of these snapshots.
ChangeRecords ==
    UNION {{monitor_diff_snapshots(o, n)[i] : i \in 1..Len(monitor_diff_snapshots(o, n))} :
              o \in Snapshots, n \in Snapshots}

\* What a callback does: it returns, or it raises an Exception.
Outcomes == {"return", "raise"}

\* Poll cycles modelled before MonitorStats.cycles stops the model.
MaxCycles == 2

VARIABLES
    call,           \* the application of a pure function (SchedSpec, DiffSpec)
    actions,        \* ActionRegistry._actions
    op,             \* the registry method being run or last run, with its arguments
    rpc,            \* the registry's position: "idle", "loop", "callback", "raised"
    idx,            \* position of the loop over _event_actions or _scheduled_actions
    context,        \* the ActionContext of the call, None outside one
    calls,          \* the callbacks completed by the current or last dispatch call
    pre,            \* _actions as they were when the current or last method was entered
    pc,             \* DirectoryMonitor.run's position
    stop_event,     \* DirectoryMonitor._stop_event
    mon_snapshot,   \* DirectoryMonitor._snapshot
    new_snapshot,   \* run's local new_snapshot
    events,         \* run's local events
    event_index,    \* position of run's loop over events
    stats,          \* DirectoryMonitor._stats
    clock,          \* the last reading of datetime.now()
    cycle_log,      \* the callbacks completed in the current poll cycle
    baseline,       \* per action, the snapshot of its latest priming or firing
    startup,        \* the snapshot of run's first scan, None before it
    fired,          \* the scheduled actions whose callback has ended in this run
    steps,          \* the steps run has taken in the current poll cycle
    stop_at,        \* where run was when stop was called, None before the call
    tree_changed    \* some scan of a cycle differed from run's first scan

vars == <<call, actions, op, rpc, idx, context, calls, pre, pc, stop_event, mon_snapshot,
          new_snapshot, events, event_index, stats, clock, cycle_log, baseline,
          startup, fired, steps, stop_at, tree_changed>>

reg_vars == <<actions, op, rpc, idx, context, calls, pre>>

mon_vars == <<pc, stop_event, mon_snapshot, new_snapshot, events, event_index, stats,
              clock, cycle_log, baseline, startup, fired, steps, stop_at, tree_changed>>

NoCall == [fn |-> "none"]

\* A step of run in a poll cycle: its name, the snapshot it was given or
\* produced, and DirectoryMonitor._snapshot as the step left it.
Step(name, snap, last) == [name |-> name, snapshot |-> snap, last |-> last]

\* op.repeat: the method is dispatch_scheduled and the method run just before
\* it was dispatch_scheduled with the same now.
NoOp == [name |-> "init", event |-> None, snapshot |-> <<>>, now |-> None,
         repeat |-> FALSE]

(***************************************************************************)
(* The registry's methods, in steps: a dispatch method is entered, then    *)
(* walks its action list; a callback is in flight between its invocation   *)
(* and its return or raise.                                                *)
(***************************************************************************)

\* The position after the action at index i of a list of n actions: the next
\* action, or the return of the method.
Advance(i, n) ==
    /\ idx' = i + 1
    /\ rpc' = IF i + 1 > n THEN "idle" ELSE "loop"

\* A dispatch_event whose loop starts at the second event action.
dispatch_event_enter_from_second(event, snap) ==
    /\ op' = [name |-> "dispatch_event", event |-> Some(event), snapshot |-> snap,
              now |-> None, repeat |-> FALSE]
    /\ pre' = actions
    /\ calls' = <<>>
    /\ IF Len(event_actions(actions)) < 2
       THEN rpc' = "idle" /\ context' = None
       ELSE rpc' = "loop" /\ context' = Some(ActionContext(RootPath, snap, Some(event), <<>>))
    /\ idx' = 2
    /\ UNCHANGED actions

\* dispatch_event(event, root_path, snapshot), lines 71-73.
dispatch_event_enter(event, snap) ==
    /\ op' = [name |-> "dispatch_event", event |-> Some(event), snapshot |-> snap,
              now |-> None, repeat |-> FALSE]
    /\ pre' = actions
    /\ calls' = <<>>
    /\ IF event_actions(actions) = <<>>
       THEN rpc' = "idle" /\ context' = None
       ELSE rpc' = "loop" /\ context' = Some(ActionContext(RootPath, snap, Some(event), <<>>))
    /\ idx' = 1
    /\ UNCHANGED actions

\* dispatch_event, lines 74-75: the next event action's callback is invoked.
event_invoke ==
    /\ rpc = "loop"
    /\ op.name = "dispatch_event"
    /\ rpc' = "callback"
    /\ UNCHANGED <<actions, op, idx, context, calls, pre>>

\* dispatch_scheduled(now, root_path, snapshot), lines 78-79.
dispatch_scheduled_enter(now, snap) ==
    /\ op' = [name |-> "dispatch_scheduled", event |-> None, snapshot |-> snap,
              now |-> Some(now),
              repeat |-> (op.name = "dispatch_scheduled" /\ op.now = Some(now))]
    /\ pre' = actions
    /\ calls' = <<>>
    /\ context' = None
    /\ rpc' = IF scheduled_actions(actions) = <<>> THEN "idle" ELSE "loop"
    /\ idx' = 1
    /\ UNCHANGED actions

\* dispatch_scheduled, lines 80-93 for the next scheduled action: it is passed
\* over, or its context is built and its callback invoked.
scheduled_examine ==
    /\ rpc = "loop"
    /\ op.name = "dispatch_scheduled"
    /\ LET ids    == scheduled_actions(actions)
           id     == ids[idx]
           action == scheduled_prepare(actions[id], op.now[1])
       IN  /\ actions' = [actions EXCEPT ![id] = action]
           /\ IF scheduled_skips(action, op.now[1])
              THEN /\ Advance(idx, Len(ids))
                   /\ UNCHANGED context
              ELSE /\ context' = Some(scheduled_context(action, RootPath, op.snapshot))
                   /\ rpc' = "callback"
                   /\ UNCHANGED idx
    /\ UNCHANGED <<op, calls, pre>>

\* The callback in flight returns or raises; _safe_invoke ends, and a
\* scheduled action is rebased and rescheduled (lines 94-96).  An exception
\* that _safe_invoke lets through ends the method.
callback_end(outcome) ==
    /\ rpc = "callback"
    /\ LET ids == IF op.name = "dispatch_event" THEN event_actions(actions)
                  ELSE scheduled_actions(actions)
           id  == ids[idx]
       IN  IF safe_invoke(outcome) = "propagated"
           THEN /\ rpc' = "raised"
                /\ UNCHANGED <<actions, idx, calls>>
           ELSE /\ calls' = Append(calls, [action |-> id, context |-> context[1],
                                          outcome |-> outcome])
                /\ Advance(idx, Len(ids))
                /\ actions' = IF op.name = "dispatch_event" THEN actions
                              ELSE [actions EXCEPT ![id] =
                                      scheduled_complete(actions[id], op.now[1],
                                                         op.snapshot)]
    /\ UNCHANGED <<op, context, pre>>

\* prime_scheduled_snapshots(snapshot), lines 101-103.
prime_scheduled_snapshots(snap) ==
    /\ op' = [name |-> "prime_scheduled_snapshots", event |-> None, snapshot |-> snap,
              now |-> None, repeat |-> FALSE]
    /\ pre' = actions
    /\ actions' = [i \in 1..Len(actions) |->
                      IF is_event_trigger(actions[i]) THEN actions[i]
                      ELSE prime_action(actions[i], snap)]
    /\ calls' = <<>>
    /\ context' = None
    /\ UNCHANGED <<rpc, idx>>

\* The action whose callback is in flight.
InFlight == IF op.name = "dispatch_event" THEN event_actions(actions)[idx]
            ELSE scheduled_actions(actions)[idx]

(***************************************************************************)
(* RegSpec: a registry built by ActionRegistry.__init__ and then called by *)
(* a client in any order with any arguments: dispatch_event,               *)
(* dispatch_scheduled and prime_scheduled_snapshots.                       *)
(***************************************************************************)

RegInit ==
    /\ call = NoCall
    /\ \E triggers \in Configs, reference_time \in {I0, I2} :
          actions = registry_init(triggers, reference_time)
    /\ op = NoOp
    /\ rpc = "idle"
    /\ idx = 1
    /\ context = None
    /\ calls = <<>>
    /\ pre = actions
    /\ pc = "client"
    /\ stop_event = FALSE
    /\ mon_snapshot = <<>>
    /\ new_snapshot = <<>>
    /\ events = <<>>
    /\ event_index = 1
    /\ stats = [cycles |-> 0, events_emitted |-> 0]
    /\ clock = I0
    /\ cycle_log = <<>>
    /\ baseline = <<>>
    /\ startup = None
    /\ fired = {}
    /\ steps = <<>>
    /\ stop_at = None
    /\ tree_changed = FALSE

\* The client may call again once the method has returned (or raised).
ClientReady == rpc \in {"idle", "raised"}

ClientDispatchEvent ==
    /\ ClientReady
    /\ \E event \in ChangeRecords, snap \in Snapshots : dispatch_event_enter(event, snap)
    /\ UNCHANGED <<call, mon_vars>>

ClientDispatchScheduled ==
    /\ ClientReady
    /\ \E now \in Instants, snap \in Snapshots : dispatch_scheduled_enter(now, snap)
    /\ UNCHANGED <<call, mon_vars>>

ClientPrime ==
    /\ ClientReady
    /\ \E snap \in Snapshots : prime_scheduled_snapshots(snap)
    /\ UNCHANGED <<call, mon_vars>>

RegEventInvoke == event_invoke /\ UNCHANGED <<call, mon_vars>>

RegScheduledExamine == scheduled_examine /\ UNCHANGED <<call, mon_vars>>

RegCallbackEnd ==
    /\ \E outcome \in Outcomes : callback_end(outcome)
    /\ UNCHANGED <<call, mon_vars>>

RegNext ==
    \/ ClientDispatchEvent
    \/ ClientDispatchScheduled
    \/ ClientPrime
    \/ RegEventInvoke
    \/ RegScheduledExamine
    \/ RegCallbackEnd

RegSpec == RegInit /\ [][RegNext]_vars

(***************************************************************************)
(* Spec: the program.  main() builds the registry at the instant the clock *)
(* shows and DirectoryMonitor.run polls: scan, diff, dispatch_event per    *)
(* change record, dispatch_scheduled, replace the snapshot, sleep.  stop() *)
(* may be called from another thread at any time.                          *)
(***************************************************************************)

Init ==
    /\ call = NoCall
    /\ clock \in {I0, I2}
    /\ \E triggers \in Configs :
          actions = registry_init(triggers, clock)
    /\ op = NoOp
    /\ rpc = "idle"
    /\ idx = 1
    /\ context = None
    /\ calls = <<>>
    /\ pre = actions
    /\ pc = "start"
    /\ stop_event = FALSE
    /\ mon_snapshot = <<>>
    /\ new_snapshot = <<>>
    /\ events = <<>>
    /\ event_index = 1
    /\ stats = [cycles |-> 0, events_emitted |-> 0]
    /\ cycle_log = <<>>
    /\ baseline = [i \in 1..Len(actions) |-> None]
    /\ startup = None
    /\ fired = {}
    /\ steps = <<>>
    /\ stop_at = None
    /\ tree_changed = FALSE

\* A start that primes the registry with the first scan and does not keep it
\* as the last snapshot.
MonitorStart_keeps_empty_snapshot ==
    /\ pc = "start"
    /\ \E scan \in Snapshots :
          /\ mon_snapshot' = mon_snapshot
          /\ prime_scheduled_snapshots(scan)
          /\ baseline' = [i \in 1..Len(actions) |->
                            IF is_event_trigger(actions[i]) THEN None ELSE Some(scan)]
          /\ startup' = Some(scan)
    /\ pc' = "check"
    /\ UNCHANGED <<call, stop_event, new_snapshot, events, event_index, stats, clock,
                   cycle_log, fired, steps>>
    /\ UNCHANGED <<stop_at, tree_changed>>

\* run, lines 44-45: the first scan, and the priming of the scheduled actions.
MonitorStart ==
    /\ pc = "start"
    /\ \E scan \in Snapshots :
          /\ mon_snapshot' = scan
          /\ prime_scheduled_snapshots(scan)
          /\ baseline' = [i \in 1..Len(actions) |->
                            IF is_event_trigger(actions[i]) THEN None ELSE Some(scan)]
          /\ startup' = Some(scan)
    /\ pc' = "check"
    /\ UNCHANGED <<call, stop_event, new_snapshot, events, event_index, stats, clock,
                   cycle_log, fired, steps>>
    /\ UNCHANGED <<stop_at, tree_changed>>

\* run, line 46 with the stop signal set: the loop ends.
LoopExit ==
    /\ pc = "check"
    /\ stop_event
    /\ pc' = "done"
    /\ UNCHANGED <<call, reg_vars, stop_event, mon_snapshot, new_snapshot, events,
                   event_index, stats, clock, cycle_log, baseline, startup, fired, steps>>
    /\ UNCHANGED <<stop_at, tree_changed>>

\* A loop condition that does not look at the stop signal.
LoopEnter_ignores_stop ==
    /\ pc = "check"
    /\ stats.cycles < MaxCycles
    /\ pc' = "scan"
    /\ UNCHANGED <<call, reg_vars, stop_event, mon_snapshot, new_snapshot, events,
                   event_index, stats, clock, cycle_log, baseline, startup, fired, steps>>
    /\ UNCHANGED <<stop_at, tree_changed>>

\* run, lines 46-47 with the stop signal clear: the loop condition lets the
\* body of one more cycle start.
LoopEnter ==
    /\ pc = "check"
    /\ ~stop_event
    /\ stats.cycles < MaxCycles
    /\ pc' = "scan"
    /\ UNCHANGED <<call, reg_vars, stop_event, mon_snapshot, new_snapshot, events,
                   event_index, stats, clock, cycle_log, baseline, startup, fired, steps>>
    /\ UNCHANGED <<stop_at, tree_changed>>

\* A _detect_changes that stores its scan as the last snapshot at once.
CycleBegin_replaces_snapshot ==
    /\ pc = "scan"
    /\ \E scan \in Snapshots :
          /\ new_snapshot' = scan
          /\ mon_snapshot' = scan
          /\ events' = monitor_diff_snapshots(mon_snapshot, scan)
          /\ steps' = <<Step("detect_changes", scan, mon_snapshot)>>
    /\ event_index' = 1
    /\ cycle_log' = <<>>
    /\ pc' = "events"
    /\ UNCHANGED <<call, reg_vars, stop_event, stats, clock, baseline, startup, fired>>
    /\ tree_changed' = (tree_changed \/ new_snapshot' # startup[1])
    /\ UNCHANGED stop_at

\* run, line 48: _detect_changes scans and diffs against the last snapshot.
CycleBegin ==
    /\ pc = "scan"
    /\ \E scan \in Snapshots :
          /\ new_snapshot' = scan
          /\ events' = monitor_diff_snapshots(mon_snapshot, scan)
          /\ steps' = <<Step("detect_changes", scan, mon_snapshot)>>
    /\ event_index' = 1
    /\ cycle_log' = <<>>
    /\ pc' = "events"
    /\ UNCHANGED <<call, reg_vars, stop_event, mon_snapshot, stats, clock, baseline,
                   startup, fired>>
    /\ tree_changed' = (tree_changed \/ new_snapshot' # startup[1])
    /\ UNCHANGED stop_at

\* run, lines 49-54: dispatch_event is called for the next change record.
DispatchNextEvent ==
    /\ pc = "events"
    /\ rpc = "idle"
    /\ event_index <= Len(events)
    /\ dispatch_event_enter(events[event_index], new_snapshot)
    /\ event_index' = event_index + 1
    /\ steps' = Append(steps, Step("dispatch_event", op'.snapshot, mon_snapshot))
    /\ UNCHANGED <<call, pc, stop_event, mon_snapshot, new_snapshot, events, stats,
                   clock, cycle_log, baseline, startup, fired>>
    /\ UNCHANGED <<stop_at, tree_changed>>

\* A loop body that may call dispatch_scheduled before the loop over the
\* change records has ended, and then goes on to the end of the cycle.
CallDispatchScheduled_before_events ==
    /\ pc = "events"
    /\ rpc = "idle"
    /\ \E now \in Instants :
          /\ dt_le(clock, now)
          /\ clock' = now
          /\ dispatch_scheduled_enter(now, new_snapshot)
    /\ pc' = "commit"
    /\ steps' = Append(steps, Step("dispatch_scheduled", op'.snapshot, mon_snapshot))
    /\ UNCHANGED <<call, stop_event, mon_snapshot, new_snapshot, events, event_index,
                   stats, cycle_log, baseline, startup, fired>>
    /\ UNCHANGED <<stop_at, tree_changed>>

\* run, lines 56-60: after the last change record, dispatch_scheduled is
\* called with the clock's reading.
CallDispatchScheduled ==
    /\ pc = "events"
    /\ rpc = "idle"
    /\ event_index > Len(events)
    /\ \E now \in Instants :
          /\ dt_le(clock, now)
          /\ clock' = now
          /\ dispatch_scheduled_enter(now, new_snapshot)
    /\ pc' = "commit"
    /\ steps' = Append(steps, Step("dispatch_scheduled", op'.snapshot, mon_snapshot))
    /\ UNCHANGED <<call, stop_event, mon_snapshot, new_snapshot, events, event_index,
                   stats, cycle_log, baseline, startup, fired>>
    /\ UNCHANGED <<stop_at, tree_changed>>

\* run, lines 61-64: the snapshot is replaced, the counters grow, the loop
\* sleeps for the rest of the poll interval.
CycleEnd ==
    /\ pc = "commit"
    /\ rpc = "idle"
    /\ mon_snapshot' = new_snapshot
    /\ stats' = [cycles |-> stats.cycles + 1,
                 events_emitted |-> stats.events_emitted + Len(events)]
    /\ pc' = "check"
    /\ steps' = steps \o <<Step("replace_snapshot", new_snapshot, mon_snapshot'),
                            Step("sleep", new_snapshot, mon_snapshot')>>
    /\ UNCHANGED <<call, reg_vars, stop_event, new_snapshot, events, event_index, clock,
                   cycle_log, baseline, startup, fired>>
    /\ UNCHANGED <<stop_at, tree_changed>>

LoopEventInvoke ==
    /\ pc \in {"events", "commit"}
    /\ event_invoke
    /\ UNCHANGED <<call, mon_vars>>

LoopScheduledExamine ==
    /\ pc \in {"events", "commit"}
    /\ scheduled_examine
    /\ UNCHANGED <<call, mon_vars>>

\* A callback ends.  An exception that leaves the dispatch method leaves run
\* too (it is no KeyboardInterrupt) and the loop is over.
LoopCallbackEnd ==
    /\ pc \in {"events", "commit"}
    /\ \E outcome \in Outcomes : callback_end(outcome)
    /\ pc' = IF rpc' = "raised" THEN "crashed" ELSE pc
    /\ cycle_log' = IF rpc' = "raised" THEN cycle_log
                    ELSE Append(cycle_log, [action |-> InFlight, event |-> context[1].event])
    /\ baseline' = IF rpc' = "raised" \/ op.name = "dispatch_event" THEN baseline
                   ELSE [baseline EXCEPT ![InFlight] = Some(op.snapshot)]
    /\ fired' = IF rpc' = "raised" \/ op.name = "dispatch_event" THEN fired
                ELSE fired \cup {InFlight}
    /\ UNCHANGED <<call, stop_event, mon_snapshot, new_snapshot, events, event_index,
                   stats, clock, startup, steps>>
    /\ UNCHANGED <<stop_at, tree_changed>>

\* What run is doing: the scan of a cycle (line 48), a dispatch method of the
\* registry (lines 49-60), the body of a cycle between two calls, or the
\* loop condition and what precedes the loop.
Phase ==
    IF pc = "scan" THEN "scan"
    ELSE IF pc \in {"events", "commit"} /\ rpc # "idle" THEN "dispatch"
    ELSE IF pc \in {"events", "commit"} THEN "body"
    ELSE "boundary"

\* DirectoryMonitor.stop, from another thread.
Stop ==
    /\ pc \notin {"done", "crashed"}
    /\ ~stop_event
    /\ stop_event' = TRUE
    /\ UNCHANGED <<call, reg_vars, pc, mon_snapshot, new_snapshot, events, event_index,
                   stats, clock, cycle_log, baseline, startup, fired, steps>>
    /\ stop_at' = Some([phase |-> Phase, cycles |-> stats.cycles])
    /\ UNCHANGED tree_changed

Next ==
    \/ MonitorStart
    \/ LoopExit
    \/ LoopEnter
    \/ CycleBegin
    \/ DispatchNextEvent
    \/ CallDispatchScheduled
    \/ CycleEnd
    \/ LoopEventInvoke
    \/ LoopScheduledExamine
    \/ LoopCallbackEnd
    \/ Stop

Spec == Init /\ [][Next]_vars

\* The steps of the thread that runs DirectoryMonitor.run outside callbacks;
\* stop is called from another thread.
RunStep ==
    \/ MonitorStart
    \/ LoopExit
    \/ LoopEnter
    \/ CycleBegin
    \/ DispatchNextEvent
    \/ CallDispatchScheduled
    \/ CycleEnd
    \/ LoopEventInvoke
    \/ LoopScheduledExamine

\* A callback in flight ends: it returns or raises.  LoopCallbackEnd is the
\* only step that leaves rpc = "callback" and it is enabled whenever a
\* callback is in flight, so this is weak fairness of LoopCallbackEnd.
CallbacksEnd == []<>(rpc # "callback")

\* The poll loop with the thread of run never starved: every scan and sleep
\* ends, the next statement of run is executed, and every callback ends.
FairSpec == Init /\ [][Next]_vars /\ WF_vars(RunStep) /\ CallbacksEnd

(***************************************************************************)
(* SchedSpec: the scheduler as a pure function, applied to every trigger   *)
(* and reference instant of the input sets.                                *)
(***************************************************************************)

\* The registry and the monitor at rest, for the specifications of pure
\* functions.
Rest ==
    /\ actions = <<>>
    /\ op = NoOp
    /\ rpc = "idle"
    /\ idx = 1
    /\ context = None
    /\ calls = <<>>
    /\ pre = actions
    /\ pc = "none"
    /\ stop_event = FALSE
    /\ mon_snapshot = <<>>
    /\ new_snapshot = <<>>
    /\ events = <<>>
    /\ event_index = 1
    /\ stats = [cycles |-> 0, events_emitted |-> 0]
    /\ clock = I0
    /\ cycle_log = <<>>
    /\ baseline = <<>>
    /\ startup = None
    /\ fired = {}
    /\ steps = <<>>
    /\ stop_at = None
    /\ tree_changed = FALSE

SchedInit ==
    /\ Rest
    /\ call \in {[fn |-> "compute_next_run", trigger |-> t, reference |-> r,
                  done |-> FALSE, result |-> None] : t \in Triggers, r \in References}

ComputeNextRunCall ==
    /\ call.fn = "compute_next_run"
    /\ ~call.done
    /\ call' = [call EXCEPT !.done = TRUE,
                            !.result = compute_next_run(call.trigger, call.reference)]
    /\ UNCHANGED <<reg_vars, mon_vars>>

SchedNext == ComputeNextRunCall

SchedSpec == SchedInit /\ [][SchedNext]_vars

(***************************************************************************)
(* DiffSpec: the two change detectors as pure functions, applied to every  *)
(* pair of snapshots over the input paths and (mtime, size) values.        *)
(***************************************************************************)

DiffPaths == {"a.txt", "b.txt", "c.txt"}

\* (mtime, size) values: two that differ in size only, two in mtime only.
DiffStats == {<<0, 10>>, <<0, 20>>, <<1, 10>>, <<1, 5>>}

DiffEntries == {Entry(p, st[1], st[2]) : p \in DiffPaths, st \in DiffStats}

\* Every snapshot over the input paths, in every iteration order.
DiffSnapshots ==
    {s \in UNION {[1..n -> DiffEntries] : n \in 0..Cardinality(DiffPaths)} :
        \A i, j \in 1..Len(s) : i # j => s[i].path # s[j].path}

DiffInit ==
    /\ Rest
    /\ call \in {[fn |-> "diff_snapshots", old |-> o, new |-> n, done |-> FALSE,
               monitor_result |-> <<>>, actions_result |-> <<>>] :
                 o \in DiffSnapshots, n \in DiffSnapshots}

DiffSnapshotsCall ==
    /\ call.fn = "diff_snapshots"
    /\ ~call.done
    /\ call' = [call EXCEPT !.done = TRUE,
                            !.monitor_result = monitor_diff_snapshots(call.old, call.new),
                            !.actions_result = actions_diff_snapshots(call.old, call.new)]
    /\ UNCHANGED <<reg_vars, mon_vars>>

DiffNext == DiffSnapshotsCall

DiffSpec == DiffInit /\ [][DiffNext]_vars

(***************************************************************************)
(* ScanSpec: the scanner as a pure function of the directory listing and   *)
(* the monitor's configuration, applied to small trees below the root "r"  *)
(* and to every pair of lists of at most MaxPatterns patterns.             *)
(***************************************************************************)

ScanRoot == <<"r">>

DirEntry(path, is_file, vanished, mtime, size) ==
    [path |-> path, is_file |-> is_file, vanished |-> vanished, mtime |-> mtime,
     size |-> size]

\* r/a.t, r/b.l, the directory r/s, r/s/a.t, and r/s/c.t which is gone by
\* the time it is stat'ed; the same two top-level files alone, in the other
\* order; an empty tree.
ScanListings ==
    {<<DirEntry(<<"r", "/", "a", ".", "t">>, TRUE, FALSE, 0, 10),
       DirEntry(<<"r", "/", "b", ".", "l">>, TRUE, FALSE, 1, 5),
       DirEntry(<<"r", "/", "s">>, FALSE, FALSE, 0, 0),
       DirEntry(<<"r", "/", "s", "/", "a", ".", "t">>, TRUE, FALSE, 1, 10),
       DirEntry(<<"r", "/", "s", "/", "c", ".", "t">>, TRUE, TRUE, 0, 20)>>,
     <<DirEntry(<<"r", "/", "b", ".", "l">>, TRUE, FALSE, 1, 5),
       DirEntry(<<"r", "/", "a", ".", "t">>, TRUE, FALSE, 0, 10)>>,
     <<>>}

\* "*.t", "a.*" and "?.l" match by filename, "r/s/*" by path, and "s/*", a
\* path relative to the root, matches neither.
ScanPatterns ==
    {<<"*", ".", "t">>, <<"a", ".", "*">>, <<"r", "/", "s", "/", "*">>,
     <<"?", ".", "l">>, <<"s", "/", "*">>}

\* Patterns in a list of include or exclude patterns.
MaxPatterns == 2

PatternLists == UNION {[1..n -> ScanPatterns] : n \in 0..MaxPatterns}

ScanInit ==
    /\ Rest
    /\ call \in {[fn |-> "scan", root_exists |-> x, listing |-> l, recursive |-> rec,
                  include_patterns |-> inc, exclude_patterns |-> exc, done |-> FALSE,
                  matched |-> <<>>, result |-> <<>>] :
                    x \in BOOLEAN, l \in ScanListings, rec \in BOOLEAN,
                    inc \in PatternLists, exc \in PatternLists}

\* _scan is called; matched keeps what _matches_patterns answers for each
\* entry of the listing.
ScanCall ==
    /\ call.fn = "scan"
    /\ ~call.done
    /\ call' = [call EXCEPT
                  !.done = TRUE,
                  !.matched = [i \in 1..Len(call.listing) |->
                                  matches_patterns(call.listing[i].path,
                                                   call.include_patterns,
                                                   call.exclude_patterns)],
                  !.result = monitor_scan(ScanRoot, call.root_exists, call.listing,
                                          call.recursive, call.include_patterns,
                                          call.exclude_patterns)]
    /\ UNCHANGED <<reg_vars, mon_vars>>

ScanNext == ScanCall

ScanSpec == ScanInit /\ [][ScanNext]_vars

(***************************************************************************)
(* Claims about the scheduler (SchedSpec).                                 *)
(***************************************************************************)

SchedDone == call.fn = "compute_next_run" /\ call.done

\* C1: for every trigger of kind minutely, hourly, daily, weekly or monthly
\* and every reference instant, compute_next_run returns an instant strictly
\* greater than the reference (never equal, never earlier).
C1_NextRunStrictlyAfter ==
    (SchedDone /\ call.trigger.type \in TimedTypes)
        => /\ call.result # None
           /\ dt_lt(call.reference, call.result[1])
           /\ call.result[1] # call.reference

\* A daily 09:00:00 trigger asked at exactly 09:00:00.000000: the candidate of
\* the day equals the reference and the next day is returned.
C1_Witness ==
    /\ SchedDone
    /\ call.trigger = Trigger("daily", Some(TimeOfDay(9, 0, 0)), None, None, None)
    /\ call.reference = DateTime(2024, 1, 31, 9, 0, 0, 0)
    /\ call.result = Some(DateTime(2024, 2, 1, 9, 0, 0, 0))

(***************************************************************************)
(* Claims about the change detector (DiffSpec).                            *)
(***************************************************************************)

DiffDone == call.fn = "diff_snapshots" /\ call.done

\* The (kind, path) pairs of a sequence of change records.
KindsOf(recs) == {<<recs[i].event_type, recs[i].path>> : i \in 1..Len(recs)}

\* The path-keyed rule, stated on the two dicts.
RuleKinds(old, new) ==
    {<<"created", p>> : p \in dict_keys(new) \ dict_keys(old)}
    \cup {<<"modified", p>> :
            p \in {q \in dict_keys(new) \cap dict_keys(old) :
                     dict_item(old, q) # dict_item(new, q)}}
    \cup {<<"deleted", p>> : p \in dict_keys(old) \ dict_keys(new)}

FollowsRule(old, new, recs) ==
    /\ KindsOf(recs) = RuleKinds(old, new)
    /\ Len(recs) = Cardinality(RuleKinds(old, new))

\* C4: both change detectors follow the path-keyed rule for all snapshots:
\* Created for a path only in new, Modified for a path in both whose
\* (mtime, size) differs, nothing for a path in both with equal (mtime, size),
\* Deleted for a path only in old, and nothing else.
C4_DiffFollowsRule ==
    DiffDone => /\ FollowsRule(call.old, call.new, call.monitor_result)
                /\ FollowsRule(call.old, call.new, call.actions_result)

\* The example of the claim: {a.txt:(t0,10)} against {a.txt:(t0,20), b.txt:(t1,5)}
\* yields exactly Modified(a.txt) and Created(b.txt).
C4_Witness ==
    /\ DiffDone
    /\ call.old = <<Entry("a.txt", 0, 10)>>
    /\ call.new = <<Entry("a.txt", 0, 20), Entry("b.txt", 1, 5)>>
    /\ KindsOf(call.monitor_result) = {<<"modified", "a.txt">>, <<"created", "b.txt">>}
    /\ KindsOf(call.actions_result) = {<<"modified", "a.txt">>, <<"created", "b.txt">>}
    /\ Len(call.monitor_result) = 2

\* C5: for every snapshot S, diff(S, S) is empty, for both change detectors.
C5_DiffSelfEmpty ==
    (DiffDone /\ call.old = call.new)
        => call.monitor_result = <<>> /\ call.actions_result = <<>>

\* A snapshot of three files compared with itself.
C5_Witness ==
    /\ DiffDone
    /\ call.old = call.new
    /\ Len(call.old) = 3
    /\ call.monitor_result = <<>>
    /\ call.actions_result = <<>>

\* The records of a sequence of change records that are about path p.
RecordsAbout(recs, p) == {i \in 1..Len(recs) : recs[i].path = p}

DisjointRule(old, new, recs) ==
    /\ \A p \in dict_keys(new) :
          \E i \in 1..Len(recs) :
              RecordsAbout(recs, p) = {i} /\ recs[i].event_type = "created"
    /\ \A p \in dict_keys(old) :
          \E i \in 1..Len(recs) :
              RecordsAbout(recs, p) = {i} /\ recs[i].event_type = "deleted"
    /\ Len(recs) = Cardinality(dict_keys(old) \cup dict_keys(new))

\* C6: for old and new snapshots with disjoint path sets, the diff holds
\* exactly one record per path of old and new, Created for each path of new
\* and Deleted for each path of old, and no path is in more than one record.
C6_DisjointOneRecordPerPath ==
    (DiffDone /\ dict_keys(call.old) \cap dict_keys(call.new) = {})
        => /\ DisjointRule(call.old, call.new, call.monitor_result)
           /\ DisjointRule(call.old, call.new, call.actions_result)

\* Two files deleted and one created.
C6_Witness ==
    /\ DiffDone
    /\ dict_keys(call.old) = {"a.txt", "c.txt"}
    /\ dict_keys(call.new) = {"b.txt"}
    /\ Len(call.monitor_result) = 3
    /\ Len(call.actions_result) = 3

(***************************************************************************)
(* Claims about the registry (RegSpec) and about the program (Spec).       *)
(***************************************************************************)

\* The actions whose callbacks a dispatch call has completed, in order.
Invoked == [i \in 1..Len(calls) |-> calls[i].action]

InvokedSet == {calls[i].action : i \in 1..Len(calls)}

ScheduledSet == {scheduled_actions(actions)[i] : i \in 1..Len(scheduled_actions(actions))}

EventSet == {event_actions(actions)[i] : i \in 1..Len(event_actions(actions))}

\* A dispatch_scheduled call has returned / a dispatch_event call has returned.
ScheduledReturned == op.name = "dispatch_scheduled" /\ rpc = "idle"

EventReturned == op.name = "dispatch_event" /\ rpc = "idle"

\* The action was due when the current dispatch_scheduled call was entered.
WasDue(id) ==
    /\ pre[id].next_run_at # None
    /\ dt_le(pre[id].next_run_at[1], op.now[1])

\* C2: failure isolation.  No exception of a callback leaves a dispatch method
\* or ends the poll loop; a dispatch_event call that has returned has invoked
\* every event action, in order, and a dispatch_scheduled call that has
\* returned has invoked every action that was due and advanced its
\* next_run_at beyond now, whatever callbacks raised.
C2_FailureIsolation ==
    /\ rpc # "raised"
    /\ pc # "crashed"
    /\ EventReturned => Invoked = event_actions(actions)
    /\ ScheduledReturned =>
          \A id \in ScheduledSet :
              WasDue(id) => /\ id \in InvokedSet
                            /\ actions[id].next_run_at # None
                            /\ dt_lt(op.now[1], actions[id].next_run_at[1])

\* Two minutely actions due at the same instant: the callback of the first
\* raised, the second was invoked all the same, its next_run_at advanced, and
\* the loop has gone on to the end of the cycle.
C2_Witness ==
    /\ pc = "check"
    /\ stats.cycles > 0
    /\ ScheduledReturned
    /\ Len(calls) = 2
    /\ calls[1].action = 2 /\ calls[1].outcome = "raise"
    /\ calls[2].action = 3 /\ calls[2].outcome = "return"
    /\ pre[2].next_run_at = pre[3].next_run_at
    /\ dt_lt(pre[3].next_run_at[1], actions[3].next_run_at[1])

\* The change records for which the callbacks of action id completed in the
\* current cycle, in order.
CycleEventsOf(id) ==
    LET mine == SelectSeq(cycle_log, LAMBDA c : c.action = id)
    IN  [i \in 1..Len(mine) |-> mine[i].event]

\* C3: in every cycle of the poll loop each event-triggered action is invoked
\* exactly once per change record of the cycle's diff, in the diff's order: k
\* records give k invocations, an empty diff gives none.
C3_OncePerChangeRecord ==
    (pc \in {"commit", "check", "done"})
        => \A id \in EventSet :
              CycleEventsOf(id) = [i \in 1..Len(events) |-> Some(events[i])]

\* A cycle with two change records and two event actions: four invocations.
C3_Witness ==
    /\ pc = "commit"
    /\ Len(events) = 2
    /\ EventSet = {1, 4}
    /\ Len(CycleEventsOf(1)) = 2
    /\ Len(CycleEventsOf(4)) = 2

\* C7: no double fire.  In a dispatch_scheduled(now) call every action invoked
\* has next_run_at strictly after now once its callback has ended, no action
\* is invoked twice, and a call that immediately repeats the previous call's
\* now invokes no callback.
C7_NoDoubleFire ==
    (op.name = "dispatch_scheduled")
        => /\ \A i \in 1..Len(calls) :
                 /\ actions[calls[i].action].next_run_at # None
                 /\ dt_lt(op.now[1], actions[calls[i].action].next_run_at[1])
           /\ \A i, j \in 1..Len(calls) : i # j => calls[i].action # calls[j].action
           /\ rpc = "callback" => InFlight \notin InvokedSet
           /\ op.repeat => calls = <<>> /\ rpc # "callback"

\* A minutely action due since 2024-01-01 00:00:00 is dispatched a month
\* later: it was invoked once and is next due at the following minute.
C7_Witness ==
    /\ ScheduledReturned
    /\ op.now = Some(I4)
    /\ Invoked = <<2, 3>>
    /\ pre[2].next_run_at = Some(I1)
    /\ actions[2].next_run_at = Some(DateTime(2024, 2, 1, 0, 1, 0, 0))

\* C8: an action fired by dispatch_scheduled(now, root_path, snapshot) has,
\* once its callback has returned or raised, previous_snapshot equal to that
\* snapshot and next_run_at equal to next_run(trigger, now + 1 second).
C8_FiredActionRebased ==
    (op.name = "dispatch_scheduled")
        => \A i \in 1..Len(calls) :
              LET action == actions[calls[i].action]
              IN  /\ calls[i].outcome \in Outcomes
                  /\ action.previous_snapshot = Some(op.snapshot)
                  /\ action.next_run_at =
                        compute_next_run(action.trigger, dt_add(op.now[1], 0, 1))

\* Fired at 00:00:59.5 with a raising callback: rebased on the snapshot of
\* the call, and next due at 00:02:00, the first minute after 00:01:00.5.
C8_Witness ==
    /\ ScheduledReturned
    /\ op.now = Some(I2)
    /\ op.snapshot = <<Entry("a.txt", 0, 20), Entry("b.txt", 1, 5)>>
    /\ Len(calls) = 2
    /\ calls[1].action = 2 /\ calls[1].outcome = "raise"
    /\ calls[2].outcome = "return"
    /\ pre[2].previous_snapshot = Some(<<Entry("a.txt", 0, 10)>>)
    /\ actions[2].previous_snapshot = Some(op.snapshot)
    /\ actions[2].next_run_at = Some(DateTime(2024, 1, 1, 0, 2, 0, 0))

\* C9: a dispatch_scheduled(now) call that has returned invoked a scheduled
\* action if and only if its next_run_at was set before the call and
\* now >= next_run_at; an action whose next_run_at was unset got it computed
\* from now and was not invoked; an action not invoked kept its
\* previous_snapshot, a not-due action kept its next_run_at, and event
\* actions were left alone.
C9_InvokedIffDue ==
    ScheduledReturned
        => /\ \A id \in ScheduledSet :
                 /\ id \in InvokedSet <=> WasDue(id)
                 /\ pre[id].next_run_at = None
                       => /\ id \notin InvokedSet
                          /\ actions[id].next_run_at =
                                compute_next_run(actions[id].trigger, op.now[1])
                 /\ id \notin InvokedSet
                       => actions[id].previous_snapshot = pre[id].previous_snapshot
                 /\ (pre[id].next_run_at # None /\ ~WasDue(id))
                       => actions[id].next_run_at = pre[id].next_run_at
           /\ \A id \in EventSet : id \notin InvokedSet /\ actions[id] = pre[id]

\* At the very instant the hourly action is due: it is invoked, the action of
\* unknown kind (next_run_at unset) and the monthly action (not yet due) are
\* not, and they keep the baseline they were primed with.
C9_Witness ==
    /\ ScheduledReturned
    /\ op.now = Some(I1)
    /\ pre[1].next_run_at = Some(I1)
    /\ Invoked = <<1>>
    /\ pre[3].next_run_at = None
    /\ actions[3].next_run_at = None
    /\ pre[4].next_run_at = Some(DateTime(2024, 1, 31, 0, 0, 0, 0))
    /\ actions[4] = pre[4]
    /\ actions[4].previous_snapshot = Some(<<Entry("a.txt", 0, 10)>>)
    /\ op.snapshot # <<Entry("a.txt", 0, 10)>>

\* C10: the context of a callback.  In event dispatch it carries the
\* triggering change record, the cycle's new snapshot and no
\* changes_since_last_run; in scheduled dispatch it carries no event, the
\* snapshot passed to the call, and as changes_since_last_run the diff from
\* the snapshot of the action's latest earlier firing or priming, which is
\* its previous_snapshot, to the snapshot passed to the call.
C10_ContextContents ==
    (rpc = "callback")
        => /\ context # None
           /\ context[1].root_path = RootPath
           /\ context[1].snapshot = new_snapshot
           /\ op.name = "dispatch_event"
                 => /\ context[1].event = Some(events[event_index - 1])
                    /\ context[1].modified_events = <<>>
           /\ op.name = "dispatch_scheduled"
                 => /\ context[1].event = None
                    /\ baseline[InFlight] # None
                    /\ actions[InFlight].previous_snapshot = baseline[InFlight]
                    /\ context[1].modified_events =
                          actions_diff_snapshots(baseline[InFlight][1], new_snapshot)

\* A scheduled callback in flight whose own baseline is older than the
\* monitor's last snapshot: it is told of the changes since its baseline.
C10_Witness ==
    /\ rpc = "callback"
    /\ op.name = "dispatch_scheduled"
    /\ baseline[InFlight] = Some(<<>>)
    /\ mon_snapshot = <<Entry("a.txt", 0, 10)>>
    /\ new_snapshot = <<Entry("a.txt", 0, 20), Entry("b.txt", 1, 5)>>
    /\ context[1].modified_events =
          <<FileEvent("created", "a.txt", 20, 0), FileEvent("created", "b.txt", 5, 1)>>

(***************************************************************************)
(* Claims about baselines, priming and actions that are never scheduled.   *)
(***************************************************************************)

\* A scheduled callback is in flight for an action that has not fired before
\* in this run of the poll loop.
FirstFiring ==
    /\ rpc = "callback"
    /\ op.name = "dispatch_scheduled"
    /\ InFlight \notin fired

\* C11 as stated: on a time-triggered action's first scheduled firing in a
\* run of the poll loop, changes_since_last_run is empty, whatever file
\* changes happened between startup and that firing.
C11_FirstFiringEmpty ==
    FirstFiring => context[1].modified_events = <<>>

\* C11, amended: on a time-triggered action's first scheduled firing in a run
\* of the poll loop, changes_since_last_run is the diff from the snapshot
\* scanned at startup, with which run primed the baselines, to the snapshot of
\* the cycle of the firing; it is empty exactly when the path-keyed rule finds
\* no difference between these two snapshots.
C11_FirstFiringSinceStartup ==
    FirstFiring
        => /\ startup # None
           /\ context[1].modified_events =
                 actions_diff_snapshots(startup[1], new_snapshot)
           /\ context[1].modified_events = <<>>
                 <=> RuleKinds(startup[1], new_snapshot) = {}

\* First firing in the second cycle or later, after a.txt grew and b.txt
\* appeared since startup: the callback is told of both changes, although the
\* cycle's own diff against the last snapshot is empty.
C11_Witness ==
    /\ FirstFiring
    /\ stats.cycles >= 1
    /\ startup = Some(<<Entry("a.txt", 0, 10)>>)
    /\ events = <<>>
    /\ context[1].modified_events =
          <<FileEvent("modified", "a.txt", 20, 0), FileEvent("created", "b.txt", 5, 1)>>

\* A prime_scheduled_snapshots call has returned.
PrimeReturned == op.name = "prime_scheduled_snapshots" /\ rpc = "idle"

\* C12 as stated: prime_scheduled_snapshots(S) sets the previous_snapshot of
\* every time-triggered action to S and changes no next_run_at and no
\* event-triggered action, whenever it is called.
C12_PrimeSetsEveryBaseline ==
    PrimeReturned
        => /\ \A id \in ScheduledSet :
                 /\ actions[id].previous_snapshot = Some(op.snapshot)
                 /\ actions[id].next_run_at = pre[id].next_run_at
           /\ \A id \in EventSet : actions[id] = pre[id]

\* C12, amended: prime_scheduled_snapshots(S) sets the previous_snapshot of
\* every time-triggered action whose previous_snapshot is unset to S, leaves
\* the previous_snapshot of an action that was primed or has fired before as
\* it was, and changes no next_run_at and no event-triggered action.
C12_PrimeSeedsUnsetBaselines ==
    PrimeReturned
        => /\ \A id \in ScheduledSet :
                 /\ pre[id].previous_snapshot = None
                       => actions[id].previous_snapshot = Some(op.snapshot)
                 /\ pre[id].previous_snapshot # None
                       => actions[id].previous_snapshot = pre[id].previous_snapshot
                 /\ actions[id].next_run_at = pre[id].next_run_at
                 /\ actions[id].trigger = pre[id].trigger
           /\ \A id \in EventSet : actions[id] = pre[id]

\* Priming after the hourly action has fired on a two-file snapshot and the
\* monthly action has not: the hourly action keeps the snapshot of its
\* firing, the monthly action is seeded.
C12_Witness ==
    /\ PrimeReturned
    /\ Len(actions) = 4
    /\ op.snapshot = <<Entry("a.txt", 0, 10)>>
    /\ pre[1].previous_snapshot = Some(<<Entry("a.txt", 0, 20), Entry("b.txt", 1, 5)>>)
    /\ pre[4].previous_snapshot = None
    /\ actions[1].previous_snapshot = pre[1].previous_snapshot
    /\ actions[4].previous_snapshot = Some(op.snapshot)
    /\ actions[4].next_run_at = pre[4].next_run_at
    /\ actions[2] = pre[2]

\* C13: compute_next_run returns None for an event trigger, and in every
\* state of the registry, after construction and after any sequence of
\* dispatch_event, dispatch_scheduled and prime_scheduled_snapshots calls,
\* every event-triggered action has next_run_at = None and no
\* dispatch_scheduled call invokes it.
C13_EventNeverScheduled ==
    \A i \in 1..Len(actions) :
        actions[i].trigger.type = "event"
            => /\ \A r \in Instants : compute_next_run(actions[i].trigger, r) = None
               /\ actions[i].next_run_at = None
               /\ op.name = "dispatch_scheduled"
                     => /\ i \notin InvokedSet
                        /\ rpc = "callback" => InFlight # i

\* A dispatch_scheduled call a month after construction has fired both
\* minutely actions; the two event actions registered around them were left
\* out and are still unscheduled.
C13_Witness ==
    /\ ScheduledReturned
    /\ op.now = Some(I4)
    /\ Invoked = <<2, 3>>
    /\ EventSet = {1, 4}
    /\ actions[1].next_run_at = None
    /\ actions[4].next_run_at = None

(***************************************************************************)
(* Claims about the calendar rules of the scheduler (SchedSpec).           *)
(***************************************************************************)

\* The time of day and the day of month a trigger asks for: the configured
\* ones, midnight when no time is configured, the reference's day when no day
\* is configured.
TimeAsked(trigger) == IF trigger.time = None THEN TimeOfDay(0, 0, 0) ELSE trigger.time[1]

DayAsked(trigger, reference) ==
    IF trigger.day = None THEN reference.day ELSE trigger.day[1]

\* The monthly candidate of a year and month: the day asked for, or the last
\* day of that month when the month is shorter, at the time asked for.
MonthlyCandidate(year, month, day, at) ==
    LET last == CHOOSE d \in 28..31 :
                    /\ toordinal([year |-> year, month |-> month, day |-> d]) + 1
                         = toordinal(IF month = 12
                                     THEN [year |-> year + 1, month |-> 1, day |-> 1]
                                     ELSE [year |-> year, month |-> month + 1, day |-> 1])
    IN  DateTime(year, month, IF day <= last THEN day ELSE last,
                 at.hour, at.minute, at.second, 0)

\* C14: for a monthly trigger the result is the candidate of the reference's
\* year and month when that is strictly after the reference, otherwise the
\* candidate of the next month (December wrapping to January of the next
\* year), the day clamped anew for that month: the result's day of month is
\* min(configured day, last day of the result's month).
C14_MonthlyClamped ==
    (SchedDone /\ call.trigger.type = "monthly")
        => LET r      == call.reference
               day    == DayAsked(call.trigger, r)
               at     == TimeAsked(call.trigger)
               this   == MonthlyCandidate(r.year, r.month, day, at)
               next   == IF r.month = 12
                         THEN MonthlyCandidate(r.year + 1, 1, day, at)
                         ELSE MonthlyCandidate(r.year, r.month + 1, day, at)
               result == call.result[1]
           IN  /\ call.result # None
               /\ result = IF dt_lt(r, this) THEN this ELSE next
               /\ \/ result.day = day
                  \/ /\ result.day < day
                     /\ fromordinal(toordinal(result) + 1).day = 1

\* The example of the claim: day 31 asked on 2023-01-31 after the time of the
\* trigger has passed; the target month is February 2023 and the result is
\* February 28.
C14_Witness ==
    /\ SchedDone
    /\ call.trigger = Trigger("monthly", Some(TimeOfDay(9, 0, 0)), None, Some(31), None)
    /\ call.reference = DateTime(2023, 1, 31, 10, 30, 30, 0)
    /\ call.result = Some(DateTime(2023, 2, 28, 9, 0, 0, 0))

\* The weekday a weekly trigger asks for: the configured one, the
\* reference's when none is configured.
WeekdayAsked(trigger, reference) ==
    IF trigger.weekday = None THEN weekday_of(reference) ELSE trigger.weekday[1]

\* The reference is on the target weekday at or after the time asked for.
OnTargetDayAtOrAfter(trigger, reference) ==
    LET at == TimeAsked(trigger)
    IN  /\ weekday_of(reference) = WeekdayAsked(trigger, reference)
        /\ second_of_day(reference) >= at.hour * 3600 + at.minute * 60 + at.second

\* C15: for a weekly trigger the result is on the configured weekday at the
\* configured time of day; when the reference is on the target weekday at or
\* after the configured time the result is the target weekday of the
\* following week, 7 days after the reference's date, and otherwise it is
\* less than 7 days after it.
C15_WeeklyLandsOnWeekday ==
    (SchedDone /\ call.trigger.type = "weekly")
        => LET r      == call.reference
               at     == TimeAsked(call.trigger)
               result == call.result[1]
               ahead  == toordinal(result) - toordinal(r)
           IN  /\ call.result # None
               /\ weekday_of(result) = WeekdayAsked(call.trigger, r)
               /\ <<result.hour, result.minute, result.second, result.microsecond>>
                     = <<at.hour, at.minute, at.second, 0>>
               /\ IF OnTargetDayAtOrAfter(call.trigger, r)
                  THEN ahead = 7
                  ELSE ahead \in 0..6

\* The example of the claim: Wednesday 09:00 asked on Wednesday 2024-01-31 at
\* 23:00; the result is Wednesday 2024-02-07 at 09:00.
C15_Witness ==
    /\ SchedDone
    /\ call.trigger = Trigger("weekly", Some(TimeOfDay(9, 0, 0)), Some(2), None, None)
    /\ call.reference = DateTime(2024, 1, 31, 23, 0, 0, 0)
    /\ weekday_of(call.reference) = 2
    /\ call.result = Some(DateTime(2024, 2, 7, 9, 0, 0, 0))

\* The instant one hour after dt, by the clock and the calendar.
OneHourLater(dt) ==
    IF dt.hour < 23 THEN [dt EXCEPT !.hour = dt.hour + 1]
    ELSE LET ymd == fromordinal(toordinal(dt) + 1)
         IN  [dt EXCEPT !.year = ymd.year, !.month = ymd.month, !.day = ymd.day,
                        !.hour = 0]

\* C16: for an hourly trigger with minute m the result is the reference with
\* its minute set to m (0 when unset), its seconds set to the seconds of the
\* time of day (0 when unset) and its sub-second part zeroed, plus one hour
\* when that candidate is not strictly after the reference.
C16_HourlyCandidate ==
    (SchedDone /\ call.trigger.type = "hourly")
        => LET r         == call.reference
               m         == IF call.trigger.minute = None THEN 0
                            ELSE call.trigger.minute[1]
               s         == IF call.trigger.time = None THEN 0
                            ELSE call.trigger.time[1].second
               candidate == DateTime(r.year, r.month, r.day, r.hour, m, s, 0)
           IN  call.result = Some(IF dt_lt(r, candidate) THEN candidate
                                  ELSE OneHourLater(candidate))

\* The example of the claim: minute 30 asked at 10:45:00 gives 11:30:00 on
\* the same day.
C16_Witness ==
    /\ SchedDone
    /\ call.trigger = Trigger("hourly", None, None, None, Some(30))
    /\ call.reference = DateTime(2024, 1, 31, 10, 45, 0, 0)
    /\ call.result = Some(DateTime(2024, 1, 31, 11, 30, 0, 0))

(***************************************************************************)
(* Claims about actions of unknown kind (RegSpec).                         *)
(***************************************************************************)

\* The actions whose trigger kind is no member of TriggerType.
UnknownSet == {i \in 1..Len(actions) : actions[i].trigger.type \notin TriggerTypes}

\* C17: an action whose trigger kind is unknown is never scheduled and never
\* dispatched: its next_run_at is None after construction and after every
\* dispatch_scheduled call, compute_next_run gives None for it, no dispatch
\* method invokes its callback, and no method of the registry ends by an
\* exception because of it.
C17_UnknownKindNeverFires ==
    /\ rpc # "raised"
    /\ \A i \in UnknownSet :
          /\ actions[i].next_run_at = None
          /\ \A r \in Instants : compute_next_run(actions[i].trigger, r) = None
          /\ i \notin InvokedSet
          /\ rpc = "callback" => InFlight # i

\* A dispatch_scheduled call a month after construction: the hourly and the
\* monthly action registered around the action of unknown kind have fired,
\* the action of unknown kind was examined, got no next_run_at and was
\* passed over.
C17_Witness ==
    /\ ScheduledReturned
    /\ op.now = Some(I4)
    /\ UnknownSet = {3}
    /\ Invoked = <<1, 4>>
    /\ pre[3].next_run_at = None
    /\ actions[3].next_run_at = None

(***************************************************************************)
(* Claims about the scanner (ScanSpec).                                    *)
(***************************************************************************)

ScanDone == call.fn = "scan" /\ call.done

\* The path or its bare filename matches one of the patterns.
MatchesAny(path, patterns) ==
    \E pat \in {patterns[k] : k \in 1..Len(patterns)} :
        fnmatch(path, pat) \/ fnmatch(path_name(path), pat)

\* Exclusion first, then inclusion.
Kept(path, include, exclude) ==
    /\ ~MatchesAny(path, exclude)
    /\ include # <<>> => MatchesAny(path, include)

\* C18: the filter of the scanner applies exclusion before inclusion.  A file
\* whose path or bare filename matches an exclude pattern is skipped, also
\* when it matches an include pattern; otherwise it is kept if no include
\* pattern is configured or if its path or filename matches one; and the
\* snapshot holds exactly the listed regular files that are kept and can be
\* stat'ed.
C18_ExcludeBeforeInclude ==
    ScanDone
        => LET listing == call.listing
               inc     == call.include_patterns
               exc     == call.exclude_patterns
               listed  == {i \in 1..Len(listing) :
                              call.recursive
                              \/ listing[i] \in {iter_paths(ScanRoot, listing, FALSE)[k] :
                                      k \in 1..Len(iter_paths(ScanRoot, listing, FALSE))}}
           IN  /\ \A i \in 1..Len(listing) :
                     /\ call.matched[i] <=> Kept(listing[i].path, inc, exc)
                     /\ MatchesAny(listing[i].path, exc) => ~call.matched[i]
               /\ dict_keys(call.result) =
                     IF call.root_exists
                     THEN {listing[i].path :
                              i \in {j \in listed : /\ listing[j].is_file
                                                     /\ ~listing[j].vanished
                                                     /\ call.matched[j]}}
                     ELSE {}
               /\ Len(call.result) = Cardinality(dict_keys(call.result))

\* Include "*.t" and exclude "r/s/*": r/s/a.t matches the include pattern by
\* its filename and the exclude pattern by its path, and is skipped; r/a.t
\* is the only file of the snapshot.
C18_Witness ==
    /\ ScanDone
    /\ call.root_exists
    /\ call.recursive
    /\ Len(call.listing) = 5
    /\ call.include_patterns = <<(<<"*", ".", "t">>)>>
    /\ call.exclude_patterns = <<(<<"r", "/", "s", "/", "*">>)>>
    /\ call.matched = <<TRUE, FALSE, FALSE, FALSE, FALSE>>
    /\ call.result = <<Entry(<<"r", "/", "a", ".", "t">>, 0, 10)>>

(***************************************************************************)
(* Claims about renames (DiffSpec).                                        *)
(***************************************************************************)

\* No record is a Moved record and none carries a previous_path.
NoMoved(recs) ==
    \A i \in 1..Len(recs) :
        /\ recs[i].event_type \in {"created", "modified", "deleted"}
        /\ recs[i].previous_path = None

\* The renames between two snapshots: p is gone, q is new, and q has the
\* (mtime, size) p had.
Renames(old, new) ==
    {pq \in (dict_keys(old) \ dict_keys(new)) \X (dict_keys(new) \ dict_keys(old)) :
        dict_item(old, pq[1]) = dict_item(new, pq[2])}

\* The records about path p are exactly one record, of the given kind.
OneRecord(recs, p, kind) ==
    \E i \in 1..Len(recs) :
        RecordsAbout(recs, p) = {i} /\ recs[i].event_type = kind

\* C19: the change detector never produces a Moved record and sets
\* previous_path on no record; a rename of path p to path q between two
\* snapshots gives exactly one Deleted record for p and one Created record
\* for q.
C19_RenameIsDeletedPlusCreated ==
    DiffDone
        => /\ NoMoved(call.monitor_result)
           /\ NoMoved(call.actions_result)
           /\ \A pq \in Renames(call.old, call.new) :
                 /\ OneRecord(call.monitor_result, pq[1], "deleted")
                 /\ OneRecord(call.monitor_result, pq[2], "created")
                 /\ OneRecord(call.actions_result, pq[1], "deleted")
                 /\ OneRecord(call.actions_result, pq[2], "created")

\* a.txt is renamed to b.txt and keeps its mtime and size, beside c.txt which
\* stays: the diff is Created(b.txt), Deleted(a.txt).
C19_Witness ==
    /\ DiffDone
    /\ call.old = <<Entry("a.txt", 0, 10), Entry("c.txt", 1, 5)>>
    /\ call.new = <<Entry("c.txt", 1, 5), Entry("b.txt", 0, 10)>>
    /\ Renames(call.old, call.new) = {<<"a.txt", "b.txt">>}
    /\ call.monitor_result = <<FileEvent("created", "b.txt", 10, 0),
                               FileEvent("deleted", "a.txt", 10, 0)>>
    /\ call.actions_result = call.monitor_result

(***************************************************************************)
(* Claims about the order of a poll cycle (Spec).                          *)
(***************************************************************************)

StepNames == [i \in 1..Len(steps) |-> steps[i].name]

\* The steps of a whole cycle with k change records.
CycleOrder(k) ==
    <<"detect_changes">> \o [i \in 1..k |-> "dispatch_event"]
        \o <<"dispatch_scheduled", "replace_snapshot", "sleep">>

\* C20: each poll cycle runs scan and diff against the global last snapshot,
\* dispatch_event for every change record, dispatch_scheduled, the
\* replacement of the global last snapshot by the new scan, and sleep, in
\* this order.  All event dispatches of a cycle precede its scheduled
\* dispatch, both are given the new snapshot, and the global last snapshot is
\* replaced only after both have returned.
C20_CycleOrder ==
    (steps # <<>>)
        => LET k     == Len(events)
               scan1 == steps[1]
           IN  /\ StepNames = SubSeq(CycleOrder(k), 1, Len(steps))
               /\ events = monitor_diff_snapshots(scan1.last, scan1.snapshot)
               /\ new_snapshot = scan1.snapshot
               /\ \A i \in 1..Len(steps) :
                     /\ steps[i].name \in {"dispatch_event", "dispatch_scheduled"}
                           => /\ steps[i].snapshot = scan1.snapshot
                              /\ steps[i].last = scan1.last
                     /\ steps[i].name \in {"replace_snapshot", "sleep"}
                           => steps[i].last = scan1.snapshot
               /\ pc = "events" => Len(steps) = event_index
               /\ pc = "commit" => Len(steps) = k + 2
               /\ (pc = "check" /\ stats.cycles > 0) => StepNames = CycleOrder(k)
               /\ (pc \in {"events", "commit"}) => mon_snapshot = scan1.last
               /\ (rpc # "idle") => mon_snapshot = scan1.last

\* A whole cycle with two change records: scan and diff, two event
\* dispatches, the scheduled dispatch, the replacement of a last snapshot
\* that differed from the scan, and the sleep.
C20_Witness ==
    /\ pc = "check"
    /\ stats.cycles > 0
    /\ Len(events) = 2
    /\ StepNames = <<"detect_changes", "dispatch_event", "dispatch_event",
                     "dispatch_scheduled", "replace_snapshot", "sleep">>
    /\ steps[1].last # steps[1].snapshot
    /\ mon_snapshot = steps[1].snapshot

(***************************************************************************)
(* Cancellation, the moments of mutation, liveness, the two change         *)
(* detectors, the delta, the period of a trigger, and the startup scan.    *)
(***************************************************************************)

\* The cycle that was running when stop was called, if one was.
StoppedInCycle == stop_at # None /\ stop_at[1].phase # "boundary"

\* What a step may do with the stop signal: stop sets it and touches nothing
\* else of the loop or the registry; the loop ends from its condition alone,
\* with the signal set; with the signal set the condition lets no cycle start.
StopIsCooperative ==
    /\ (stop_event' # stop_event)
          => /\ stop_event'
             /\ UNCHANGED <<reg_vars, pc, mon_snapshot, new_snapshot, events,
                            event_index, stats, clock, cycle_log, steps>>
    /\ (pc' = "done" /\ pc # "done") => (pc = "check" /\ stop_event)
    /\ (stop_event /\ pc = "check") => pc' \in {"check", "done"}

\* When the loop has ended: the cycle that was running when stop was called
\* was counted, and ran all its steps and all its event dispatches; no cycle
\* followed it.
StoppedCycleCompleted ==
    (pc = "done")
        => /\ stop_at # None
           /\ stats.cycles = stop_at[1].cycles + (IF StoppedInCycle THEN 1 ELSE 0)
           /\ (stats.cycles > 0) => (StepNames = CycleOrder(Len(events)))
           /\ \A id \in EventSet :
                 CycleEventsOf(id) = [i \in 1..Len(events) |-> Some(events[i])]

\* C21: cancellation is cooperative.  stop only sets the signal, which is
\* examined at the loop condition alone: a stop called while a scan or a
\* dispatch of a cycle is in flight interrupts nothing, the cycle runs all its
\* steps and all its dispatches; after stop was called no further cycle is
\* started, and the loop ends.
C21_CooperativeCancellation ==
    /\ [][StopIsCooperative]_vars
    /\ []StoppedCycleCompleted
    /\ (stop_event ~> (pc = "done"))

\* stop was called while the callback of an event action was in flight for
\* the first of two change records: the cycle went on through both records
\* and the scheduled dispatch, replaced the snapshot, and the loop ended
\* without another cycle.
C21_Witness ==
    /\ pc = "done"
    /\ stop_at = Some([phase |-> "dispatch", cycles |-> 1])
    /\ stats.cycles = 2
    /\ Len(events) = 2
    /\ Len(cycle_log) >= 4
    /\ StepNames = CycleOrder(2)

\* The part of a cycle from the end of its scan to the return of
\* dispatch_scheduled.
DispatchPhase == pc = "events" \/ (pc = "commit" /\ rpc # "idle")

\* What the registry keeps of scheduled action i from one cycle to the next.
ScheduleState(i) == <<actions[i].previous_snapshot, actions[i].next_run_at>>

\* C22 as the specification states it: the global last snapshot and every
\* action's previous_snapshot and next_run_at are left alone by every step of
\* the dispatch phase of a cycle, and by every step taken while a callback is
\* in flight.
C22_MutatedOnlyBetweenCycles ==
    [][/\ DispatchPhase
            => /\ mon_snapshot' = mon_snapshot
               /\ \A i \in 1..Len(actions) : ScheduleState(i)' = ScheduleState(i)
       /\ (rpc = "callback" /\ rpc' = "callback")
            => /\ mon_snapshot' = mon_snapshot
               /\ \A i \in 1..Len(actions) : ScheduleState(i)' = ScheduleState(i)]_vars

\* The step of dispatch_scheduled that follows the end of action i's own
\* callback (actions.py, lines 94-96).
OwnCallbackEnds(i) ==
    /\ pc = "commit"
    /\ op.name = "dispatch_scheduled"
    /\ rpc = "callback"
    /\ InFlight = i
    /\ rpc' # "callback"

\* C22: the global last snapshot is replaced only by the startup scan and at
\* the end of a cycle, after both dispatches have returned; an action's
\* previous_snapshot and next_run_at are mutated inside the dispatch phase, by
\* dispatch_scheduled right after that action's own callback has ended, and
\* previous_snapshot by the priming before the first cycle; none of them
\* changes while a callback invocation is in flight.
C22_MutatedAfterOwnCallback ==
    [][/\ (mon_snapshot' # mon_snapshot)
            => (pc = "start" \/ (pc = "commit" /\ rpc = "idle" /\ pc' = "check"))
       /\ \A i \in 1..Len(actions) :
             /\ (actions[i].previous_snapshot' # actions[i].previous_snapshot)
                   => (pc = "start" \/ OwnCallbackEnds(i))
             /\ (actions[i].next_run_at' # actions[i].next_run_at)
                   => OwnCallbackEnds(i)
       /\ (rpc = "callback" /\ rpc' = "callback")
            => /\ mon_snapshot' = mon_snapshot
               /\ \A i \in 1..Len(actions) : ScheduleState(i)' = ScheduleState(i)]_vars

\* dispatch_scheduled is at its second minutely action: the first has been
\* invoked, rebased on the new scan and rescheduled, while the global last
\* snapshot still is the one of the cycle before.
C22_Witness ==
    /\ pc = "commit"
    /\ rpc = "loop"
    /\ Len(calls) = 1
    /\ calls[1].action = 2
    /\ actions[2].previous_snapshot = Some(new_snapshot)
    /\ actions[2].previous_snapshot # pre[2].previous_snapshot
    /\ actions[2].next_run_at # pre[2].next_run_at
    /\ mon_snapshot # new_snapshot

\* The most actions a registry of Configs holds.
MaxActions == Len(CHOOSE c \in Configs : \A d \in Configs : Len(d) <= Len(c))

\* The time-triggered actions whose trigger kind is known.
KnownTimedSet == {i \in 1..Len(actions) : actions[i].trigger.type \in TimedTypes}

\* Action i has a due instant and the clock passed to dispatch_scheduled has
\* reached it.
DueReached(i) ==
    /\ i \in KnownTimedSet
    /\ actions[i].next_run_at # None
    /\ dt_le(actions[i].next_run_at[1], clock)

\* Action i has been invoked by the dispatch_scheduled call that was given
\* the clock's reading, and its next due instant lies after that reading.
ServedSince(i) ==
    /\ i \in KnownTimedSet
    /\ op.name = "dispatch_scheduled"
    /\ op.now = Some(clock)
    /\ i \in InvokedSet
    /\ actions[i].next_run_at # None
    /\ dt_lt(clock, actions[i].next_run_at[1])

\* C23: liveness of the scheduled actions.  A time-triggered action of a
\* known kind always has a due instant; whenever the clock passed to
\* dispatch_scheduled has reached that instant the action is eventually
\* invoked, its callbacks and those of the actions before it returning or
\* raising, and is given a later due instant: with a clock that advances
\* without bound it is invoked after each of its due instants, infinitely
\* often.
C23_ScheduledLiveness ==
    /\ [](\A i \in KnownTimedSet : actions[i].next_run_at # None)
    /\ \A i \in 1..MaxActions : DueReached(i) ~> ServedSince(i)

\* The second minutely action of a registry is served for the second time: it
\* was due at 00:00:00 and invoked, was due again at 00:01:00, and has been
\* invoked by the dispatch_scheduled call of a later cycle.
C23_Witness ==
    /\ pc = "check"
    /\ stats.cycles >= 2
    /\ ServedSince(3)
    /\ pre[3].next_run_at = Some(I3)
    /\ 3 \in fired
    /\ Len(calls) = 2

\* C24: monitor._diff_snapshots, used for event dispatch, and
\* actions._diff_snapshots, used for changes_since_last_run, return the same
\* sequence of change records, the same records in the same order, for every
\* pair of snapshots.
C24_DetectorsAgree ==
    DiffDone => call.monitor_result = call.actions_result

\* c.txt modified, b.txt created, a.txt deleted: both detectors give the three
\* records in the order of new's items first, old's leftovers after.
C24_Witness ==
    /\ DiffDone
    /\ call.old = <<Entry("a.txt", 0, 10), Entry("c.txt", 0, 20)>>
    /\ call.new = <<Entry("c.txt", 1, 10), Entry("b.txt", 1, 5)>>
    /\ call.monitor_result = <<FileEvent("modified", "c.txt", 10, 1),
                               FileEvent("created", "b.txt", 5, 1),
                               FileEvent("deleted", "a.txt", 10, 0)>>
    /\ call.actions_result = call.monitor_result

\* A snapshot as the mapping it is: the set of its (path, mtime, size) items.
ItemsOf(snap) == {<<snap[i].path, snap[i].mtime, snap[i].size>> : i \in 1..Len(snap)}

\* The mapping items with the change records recs applied in order: Created
\* and Modified set the path to the record's (mtime, size), Deleted removes it.
RECURSIVE ApplyRecords(_, _)
ApplyRecords(items, recs) ==
    IF recs = <<>> THEN items
    ELSE LET rec   == Head(recs)
             other == {it \in items : it[1] # rec.path}
         IN  ApplyRecords(IF rec.event_type \in {"created", "modified"}
                          THEN other \cup {<<rec.path, rec.mtime, rec.size>>}
                          ELSE IF rec.event_type = "deleted" THEN other
                          ELSE items,
                          Tail(recs))

\* Created and Modified records carry the (mtime, size) of their path in new,
\* Deleted records the one of their path in old.
CarriesStats(old, new, recs) ==
    \A i \in 1..Len(recs) :
        LET item == <<recs[i].path, recs[i].mtime, recs[i].size>>
        IN  /\ recs[i].event_type \in {"created", "modified"} => item \in ItemsOf(new)
            /\ recs[i].event_type = "deleted" => item \in ItemsOf(old)

FaithfulDelta(old, new, recs) ==
    /\ ApplyRecords(ItemsOf(old), recs) = ItemsOf(new)
    /\ CarriesStats(old, new, recs)

\* C25: the diff is a faithful delta.  For all snapshots old and new, old with
\* the records of diff(old, new) applied (Created and Modified set the path to
\* the record's (mtime, size), Deleted removes the path) is the mapping new;
\* Created and Modified records carry the new (mtime, size), Deleted records
\* the old one.  This holds for both change detectors.
C25_DiffIsFaithfulDelta ==
    DiffDone => /\ FaithfulDelta(call.old, call.new, call.monitor_result)
                /\ FaithfulDelta(call.old, call.new, call.actions_result)

\* b.txt changes its size, c.txt appears, a.txt goes: the three records
\* applied to old give new, and old differs from new on every path.
C25_Witness ==
    /\ DiffDone
    /\ call.old = <<Entry("a.txt", 0, 10), Entry("b.txt", 1, 5)>>
    /\ call.new = <<Entry("b.txt", 1, 10), Entry("c.txt", 0, 20)>>
    /\ Len(call.monitor_result) = 3
    /\ ApplyRecords(ItemsOf(call.old), call.monitor_result)
          = {<<"b.txt", 1, 10>>, <<"c.txt", 0, 20>>}
    /\ ApplyRecords(ItemsOf(call.old), SubSeq(call.monitor_result, 1, 2))
          = {<<"a.txt", 0, 10>>, <<"b.txt", 1, 10>>, <<"c.txt", 0, 20>>}

\* The kinds with a fixed period.
PeriodicTypes == {"minutely", "hourly", "daily", "weekly"}

\* The reference moved on by one period of the trigger: 1 minute, 1 hour,
\* 1 day, 7 days.
OnePeriodAfter(trigger, reference) ==
    IF trigger.type = "minutely" THEN dt_add(reference, 0, 60)
    ELSE IF trigger.type = "hourly" THEN dt_add(reference, 0, 3600)
    ELSE IF trigger.type = "daily" THEN dt_add(reference, 1, 0)
    ELSE dt_add(reference, 7, 0)

\* The instant dt is an occurrence of the trigger: a whole second with the
\* configured second (minutely), minute and second (hourly), time of day
\* (daily), weekday and time of day (weekly; the reference's weekday when none
\* is configured).
MatchesTrigger(trigger, reference, dt) ==
    LET at     == TimeAsked(trigger)
        minute == IF trigger.minute = None THEN 0 ELSE trigger.minute[1]
    IN  /\ dt.microsecond = 0
        /\ dt.second = at.second
        /\ trigger.type = "hourly" => dt.minute = minute
        /\ trigger.type \in {"daily", "weekly"}
              => dt.hour = at.hour /\ dt.minute = at.minute
        /\ trigger.type = "weekly" => weekday_of(dt) = WeekdayAsked(trigger, reference)

\* C26: no skipped occurrence.  For minutely, hourly, daily and weekly
\* triggers and every reference r the result is an occurrence of the trigger
\* strictly after r and at most one period after r (r + 1 minute, r + 1 hour,
\* r + 1 day, r + 7 days); the occurrences of such a trigger lying one period
\* apart, it is the earliest occurrence strictly after r.
C26_NoSkippedOccurrence ==
    (SchedDone /\ call.trigger.type \in PeriodicTypes)
        => /\ call.result # None
           /\ MatchesTrigger(call.trigger, call.reference, call.result[1])
           /\ dt_lt(call.reference, call.result[1])
           /\ dt_le(call.result[1], OnePeriodAfter(call.trigger, call.reference))

\* A minutely trigger on second 30 asked at 10:30:30.000000, an occurrence
\* itself: the result is the next occurrence, exactly one period later.
C26_Witness ==
    /\ SchedDone
    /\ call.trigger = Trigger("minutely", Some(TimeOfDay(10, 30, 30)), None, None, None)
    /\ call.reference = DateTime(2024, 1, 31, 10, 30, 30, 0)
    /\ call.result = Some(DateTime(2024, 1, 31, 10, 31, 30, 0))
    /\ call.result[1] = OnePeriodAfter(call.trigger, call.reference)

\* The change records for which a callback has ended in the current cycle.
DispatchedEvents == {cycle_log[i].event : i \in 1..Len(cycle_log)} \ {None}

\* C27: files already present at startup are not reported.  run sets the
\* global last snapshot from a scan before the first cycle; the events of the
\* first cycle are the differences between that scan and the first cycle's
\* scan, and no callback is invoked for any other record; as long as no scan
\* of a cycle differs from the startup scan, no cycle has any event.
C27_StartupFilesNotReported ==
    /\ (pc # "start") => startup # None
    /\ (pc \in {"check", "scan"} /\ stats.cycles = 0) => mon_snapshot = startup[1]
    /\ (pc \in {"events", "commit"} /\ stats.cycles = 0)
          => /\ mon_snapshot = startup[1]
             /\ events = monitor_diff_snapshots(startup[1], new_snapshot)
             /\ DispatchedEvents \subseteq {Some(events[i]) : i \in 1..Len(events)}
    /\ ~tree_changed
          => /\ events = <<>>
             /\ stats.events_emitted = 0
             /\ DispatchedEvents = {}
             /\ \A i \in 1..Len(steps) : steps[i].name # "dispatch_event"

\* Two files were there at startup and nothing changed: two cycles have run,
\* scheduled callbacks included, and no event was ever emitted.
C27_Witness ==
    /\ pc = "check"
    /\ stats.cycles = 2
    /\ ~tree_changed
    /\ Len(startup[1]) = 2
    /\ mon_snapshot = startup[1]
    /\ stats.events_emitted = 0
    /\ Len(event_actions(actions)) = 2
    /\ fired # {}

====
